---- MODULE Spec2Model ----
(***************************************************************************)
(* A model of the py-pricer transformation and rating pipeline:            *)
(*   - the two continuous banders (algorithms/pipeline/utils.py and        *)
(*     py_pricer/transformer.py),                                          *)
(*   - the two category indexers (same files),                             *)
(*   - the rating-table join (algorithms/rating/utils/table_loader.py),    *)
(*   - the quote-rating path (algorithms/rating/rating_engine.py).         *)
(*                                                                         *)
(* A polars DataFrame is a record [columns, rows]: the ordered column      *)
(* names and the sequence of rows, each row a function from column name to *)
(* a cell.  A cell is a tagged tuple: <<"num", n>>, <<"str", s>> or the    *)
(* null cell <<"null">>; <<"str", "#", n>> is the string that spells n.    *)
(*  A python dict is a sequence of items (python     *)
(* dicts keep insertion order) or, for string-keyed option objects, a      *)
(* function whose DOMAIN is the set of keys present.                       *)
(***************************************************************************)
EXTENDS Integers, Sequences, FiniteSets, TLC

VARIABLES
    df,               \* the input DataFrame handed to the operation
    banding_config,   \* content of continuous-banding.json: items <<column, config>>
    category_config,  \* content of category-index.json: items <<column, mapping>>
    rating_table,     \* content of the rating table CSV read by the operation
    join_columns,     \* the join_columns argument of load_and_join_rating_table
    result,           \* what the operation returned or raised
    previous,         \* the output of an earlier call that the caller kept
    files,            \* the working directory: what is at each path initialize writes
    rating_engine,    \* the API module's global: FALSE when import_rating_engine gave None
    transform_module, \* what is at algorithms/transformations/transform.py
    session,          \* st.session_state of the Streamlit session
    data_files,       \* algorithms/data: what the files of each data source hold
    pc                \* position: "start" or the operation that has run

vars ==
    <<df, banding_config, category_config, rating_table, join_columns, result,
      previous, files, rating_engine, transform_module, session, data_files, pc>>

\* the paths py_pricer.initializer writes in the working directory
Paths == {"algorithms", "api", "api/run_api.py", "api/test_api.py"}

\* a working directory initialised from the repository
InitialisedFiles == [p \in Paths |-> "repo"]

\* the transform.py that the repository ships: it exists, executes, and defines
\* age_band, power_group and apply_transformations
ExampleModule ==
    [exists |-> TRUE, loads |-> TRUE,
     functions |-> {"age_band", "power_group", "apply_transformations"},
     behaviour |-> "example"]

\* st.session_state of a session whose script has not run yet
EmptySession == [fresh |-> TRUE]

\* the data sources of the application, and a data directory without files
DataSources == {"Batch", "Individual"}
NoDataFiles == [s \in DataSources |-> [exists |-> FALSE]]

----------------------------------------------------------------------------
(* Bounds of the model *)

\* largest numeric cell value and band boundary
MaxVal == 2
\* largest number of bands of one field
MaxBands == 3

----------------------------------------------------------------------------
(* Cells, frames and dicts *)

Null == <<"null">>
Num(n) == <<"num", n>>
Str(s) == <<"str", s>>
IsNum(c) == c[1] = "num"
IsStr(c) == c[1] = "str"

\* a number cast to the String dtype: a string cell holding the number's text
NumberText(n) == <<"str", "#", n>>
IsNumberText(c) == IsStr(c) /\ Len(c) = 3

\* the range of a sequence
Range(s) == {s[i] : i \in DOMAIN s}

\* dict.get(key, default) on a string-keyed dict held as a function
Get(d, key, default) == IF key \in DOMAIN d THEN d[key] ELSE default

\* "column in df.columns"
HasColumn(frame, c) == c \in Range(frame.columns)

\* a with_columns that gives every row the value computed for the first row
WithColumnOfFirstRow(frame, name, cells) ==
    [columns |-> IF HasColumn(frame, name) THEN frame.columns
                 ELSE Append(frame.columns, name),
     rows |-> [i \in DOMAIN frame.rows |-> (name :> cells[1]) @@ frame.rows[i]]]

\* df.with_columns(expr.alias(name)): cells[i] is the value of expr in row i.  An
\* existing column of that name is replaced in place, a new one is appended.
WithColumn(frame, name, cells) ==
    [columns |-> IF HasColumn(frame, name) THEN frame.columns
                 ELSE Append(frame.columns, name),
     rows |-> [i \in DOMAIN frame.rows |-> (name :> cells[i]) @@ frame.rows[i]]]

\* polars type-checks an expression against the column's dtype: a numeric
\* comparison on a column that holds strings raises for the whole frame
IsStringColumn(frame, c) == \E i \in DOMAIN frame.rows : IsStr(frame.rows[i][c])

\* what an operation hands back: a frame returned normally, or an exception
Returned(frame) == [status |-> "returned", df |-> frame]
Raised(error) == [status |-> "raised", error |-> error]

NoResult == [status |-> "none"]

\* python's None where a loaded object was expected
None == [none |-> TRUE]

----------------------------------------------------------------------------
(* Continuous banding *)

\* the condition built for one band from the field's inclusivity settings
BandCondition(v, band, min_inclusive, max_exclusive) ==
    IF min_inclusive /\ max_exclusive
    THEN v >= band.min /\ v < band.max
    ELSE IF min_inclusive /\ ~max_exclusive
    THEN v >= band.min /\ v <= band.max
    ELSE IF ~min_inclusive /\ max_exclusive
    THEN v > band.min /\ v < band.max
    ELSE v > band.min /\ v <= band.max

\* a when() branch is taken only when its condition is true; comparing a null
\* cell yields null, which is not taken
ConditionHolds(cell, band, min_inclusive, max_exclusive) ==
    IsNum(cell) /\ BandCondition(cell[2], band, min_inclusive, max_exclusive)

\* a chain that lets a later branch override an earlier one
LastTaken(taken) == CHOOSE i \in taken : \A j \in taken : i >= j

\* pl.when(c1).then(l1).when(c2).then(l2)...: the first branch whose condition
\* holds gives the value
FirstTaken(taken) == CHOOSE i \in taken : \A j \in taken : i <= j

\* the chained expression algorithms.pipeline.utils builds: the first band opens the
\* chain, the bands strictly between the first and the last are added as further
\* when/then branches, and the last band's label (or a null literal when there is one
\* band) is the otherwise clause
UtilsBandExpr(cell, bands, min_inclusive, max_exclusive) ==
    LET n == Len(bands)
        branches == {1} \cup (2..(n - 1))
        taken == {i \in branches :
                    ConditionHolds(cell, bands[i], min_inclusive, max_exclusive)}
    IN  IF taken # {} THEN bands[FirstTaken(taken)].label
        ELSE IF n > 1 THEN bands[n].label
        ELSE Null

\* one iteration of the loop over banding_config.items() in algorithms.pipeline.utils
UtilsBandColumn(frame, column, config) ==
    IF ~HasColumn(frame, column) THEN Returned(frame)
    ELSE LET bands == Get(config, "bands", <<>>) IN
         IF bands = <<>> THEN Returned(frame)
         ELSE LET output_column == Get(config, "column_name", column \o "Band")
                  min_inclusive == Get(config, "min_inclusive", TRUE)
                  max_exclusive == Get(config, "max_exclusive", TRUE)
              IN  IF IsStringColumn(frame, column) THEN Raised("ComputeError")
                  ELSE Returned(WithColumn(frame, output_column,
                          [i \in DOMAIN frame.rows |->
                              UtilsBandExpr(frame.rows[i][column], bands,
                                            min_inclusive, max_exclusive)]))

RECURSIVE UtilsBandLoop(_, _, _)
UtilsBandLoop(frame, items, k) ==
    IF k > Len(items) THEN Returned(frame)
    ELSE LET step == UtilsBandColumn(frame, items[k][1], items[k][2])
         IN  IF step.status = "raised" THEN step
             ELSE UtilsBandLoop(step.df, items, k + 1)

\* algorithms.pipeline.utils.apply_continuous_banding(df, banding_config)
utils_apply_continuous_banding(frame, config) == UtilsBandLoop(frame, config, 1)

\* the chained expression py_pricer.transformer builds: every band is a when/then
\* branch and the otherwise clause is the literal "Unknown"
TransformerBandExpr(cell, bands, min_inclusive, max_exclusive) ==
    LET taken == {i \in 1..Len(bands) :
                    ConditionHolds(cell, bands[i], min_inclusive, max_exclusive)}
    IN  IF taken # {} THEN bands[FirstTaken(taken)].label
        ELSE Str("Unknown")

\* one iteration of the loop over bands_config.items() in py_pricer.transformer
TransformerBandColumn(frame, variable, config) ==
    IF ~HasColumn(frame, variable) THEN Returned(frame)
    ELSE IF "bands" \notin DOMAIN config THEN Raised("KeyError")
    ELSE LET bands == config["bands"]
             min_inclusive == Get(config, "min_inclusive", TRUE)
             max_exclusive == Get(config, "max_exclusive", TRUE)
         IN  IF bands = <<>> THEN Returned(frame)
             ELSE LET band_column == Get(config, "column_name", variable \o "Band")
                  IN  IF IsStringColumn(frame, variable) THEN Raised("ComputeError")
                      ELSE Returned(WithColumn(frame, band_column,
                              [i \in DOMAIN frame.rows |->
                                  TransformerBandExpr(frame.rows[i][variable], bands,
                                                      min_inclusive, max_exclusive)]))

\* the loop body runs inside try/except Exception: on any exception the frame as
\* banded so far is returned normally
RECURSIVE TransformerBandLoop(_, _, _)
TransformerBandLoop(frame, items, k) ==
    IF k > Len(items) THEN Returned(frame)
    ELSE LET step == TransformerBandColumn(frame, items[k][1], items[k][2])
         IN  IF step.status = "raised" THEN Returned(frame)
             ELSE TransformerBandLoop(step.df, items, k + 1)

\* py_pricer.transformer.apply_continuous_banding(df); config is what
\* load_continuous_bands() read ({} when the file is missing or empty)
transformer_apply_continuous_banding(frame, config) ==
    IF config = <<>> THEN Returned(frame)
    ELSE TransformerBandLoop(frame, config, 1)

----------------------------------------------------------------------------
(* The banding specification: one banded field, every band list, every     *)
(* setting of the flags, every kind of cell                                *)

BandedField == "VehAge"

\* band i of a list carries its own label
BandLabel(i) == Str("B" \o ToString(i))

Intervals == {mm \in (0..MaxVal) \X (0..MaxVal) : mm[1] < mm[2]}

BandLists ==
    UNION {[1..n -> Intervals] : n \in 0..MaxBands}

MakeBands(list) ==
    [i \in DOMAIN list |-> [min |-> list[i][1], max |-> list[i][2], label |-> BandLabel(i)]]

\* the cell of the banded field: a number, null, or a string
BandCells == {Num(n) : n \in 0..MaxVal} \cup {Null, Str("old")}

\* the optional keys of a field's config
OptionalKeys == {"min_inclusive", "max_exclusive", "column_name"}

MakeBandConfig(list, keys, mi, me) ==
    LET full == [bands |-> MakeBands(list), min_inclusive |-> mi,
                 max_exclusive |-> me, column_name |-> "AgeGroup"]
    IN  [k \in {"bands"} \cup keys |-> full[k]]

\* a one-row frame; the banded field is present or not
MakeFrame(present, cell) ==
    IF present
    THEN [columns |-> <<"Area", BandedField>>,
          rows |-> << ("Area" :> Str("A")) @@ (BandedField :> cell) >>]
    ELSE [columns |-> <<"Area">>, rows |-> << ("Area" :> Str("A")) >>]

InitBand ==
    /\ pc = "start"
    /\ result = NoResult
    /\ previous = NoResult
    /\ files = InitialisedFiles
    /\ rating_engine = TRUE
    /\ transform_module = ExampleModule
    /\ session = EmptySession
    /\ data_files = NoDataFiles
    /\ category_config = <<>>
    /\ rating_table = <<>>
    /\ join_columns = <<>>
    /\ \E list \in BandLists, keys \in SUBSET OptionalKeys, mi \in BOOLEAN, me \in BOOLEAN :
          banding_config = << <<BandedField, MakeBandConfig(list, keys, mi, me)>> >>
    /\ \E present \in BOOLEAN, cell \in BandCells :
          df = MakeFrame(present, cell)

\* process_data's banding step
UtilsBand ==
    /\ pc = "start"
    /\ result' = utils_apply_continuous_banding(df, banding_config)
    /\ pc' = "utils_banded"
    /\ UNCHANGED <<df, banding_config, category_config, rating_table, join_columns,
                  previous, files, rating_engine,
                  transform_module, session, data_files>>

\* the default transformation of py_pricer.transformer.apply_transformations
TransformerBand ==
    /\ pc = "start"
    /\ result' = transformer_apply_continuous_banding(df, banding_config)
    /\ pc' = "transformer_banded"
    /\ UNCHANGED <<df, banding_config, category_config, rating_table, join_columns,
                  previous, files, rating_engine,
                  transform_module, session, data_files>>

NextBand == UtilsBand \/ TransformerBand

SpecBand == InitBand /\ [][NextBand]_vars

----------------------------------------------------------------------------
(* Category indexing *)

\* Expr.replace(old, new): a cell found among the old values becomes the new value
\* cast to the column's dtype (the cells indexed here are strings, so the index
\* becomes its decimal string); every other cell is kept as it is
Replace(cell, mapping) ==
    IF IsStr(cell) /\ cell[2] \in DOMAIN mapping
    THEN NumberText(mapping[cell[2]])
    ELSE cell

\* a replacement without default, which keeps a cell that is no key
ReplaceKeepingRaw(cell, mapping) ==
    IF IsStr(cell) /\ cell[2] \in DOMAIN mapping
    THEN Num(mapping[cell[2]])
    ELSE cell

\* Expr.replace_strict(mapping, default=None): a cell found among the keys becomes
\* its index, every other cell (null included) becomes the default, null
ReplaceStrict(cell, mapping) ==
    IF IsStr(cell) /\ cell[2] \in DOMAIN mapping
    THEN Num(mapping[cell[2]])
    ELSE Null

\* the loop of algorithms.pipeline.utils.apply_category_mapping over
\* category_config.items()
RECURSIVE UtilsIndexLoop(_, _, _)
UtilsIndexLoop(frame, items, k) ==
    IF k > Len(items) THEN frame
    ELSE LET column == items[k][1]
             mapping == items[k][2]
             mapped_column == column \o "_Index"
         IN  IF ~HasColumn(frame, column) THEN UtilsIndexLoop(frame, items, k + 1)
             ELSE UtilsIndexLoop(
                    WithColumn(frame, mapped_column,
                        [i \in DOMAIN frame.rows |->
                            ReplaceStrict(frame.rows[i][column], mapping)]),
                    items, k + 1)

\* algorithms.pipeline.utils.apply_category_mapping(df, category_config)
utils_apply_category_mapping(frame, config) == Returned(UtilsIndexLoop(frame, config, 1))

\* the keys of a dict held as a sequence of items, in order
Keys(items) == [k \in DOMAIN items |-> items[k][1]]

\* the value a dict held as a sequence of items gives for a key it holds
Lookup(items, key) == items[CHOOSE k \in DOMAIN items : items[k][1] = key][2]

\* the loop of py_pricer.transformer.apply_category_indexing over columns; source is
\* the frame passed in (membership is tested on it), acc is result_df, and mappings
\* collects category_mappings
RECURSIVE TransformerIndexLoop(_, _, _, _, _, _)
TransformerIndexLoop(source, acc, mappings, category_index, columns, k) ==
    IF k > Len(columns) THEN [status |-> "returned", df |-> acc, category_mappings |-> mappings]
    ELSE LET col == columns[k] IN
         IF HasColumn(source, col) /\ col \in Range(Keys(category_index))
         THEN LET value_to_index == Lookup(category_index, col)
              IN  TransformerIndexLoop(source,
                     WithColumn(acc, col \o "_indexed",
                        [i \in DOMAIN acc.rows |-> Replace(acc.rows[i][col], value_to_index)]),
                     Append(mappings, <<col, value_to_index>>),
                     category_index, columns, k + 1)
         ELSE TransformerIndexLoop(source, acc, mappings, category_index, columns, k + 1)

\* py_pricer.transformer.apply_category_indexing(df) with columns=None;
\* category_index is what load_factor_config() read ({} when missing or empty)
transformer_apply_category_indexing(frame, category_index) ==
    IF category_index = <<>>
    THEN [status |-> "returned", df |-> frame, category_mappings |-> <<>>]
    ELSE TransformerIndexLoop(frame, frame, <<>>, category_index, Keys(category_index), 1)

----------------------------------------------------------------------------
(* The indexing specification: two categorical fields, each in the config  *)
(* or not, each in the record or not, mapped or unmapped raw values        *)

\* largest index a mapping assigns
MaxIndex == 1

IndexedFields == <<"Area", "VehGas">>

\* raw values a mapping may have as keys; "Z" is in no mapping
MappedValues == {"A", "B"}
CategoryCells == {Str(s) : s \in MappedValues \cup {"Z"}} \cup {Null}

\* the non-empty mappings of one field
Mappings == UNION {[keys -> 0..MaxIndex] : keys \in (SUBSET MappedValues) \ {{}}}

\* the sub-sequence of s at the positions in keep, in order
RECURSIVE Select(_, _)
Select(s, keep) ==
    IF s = <<>> THEN <<>>
    ELSE LET rest == Select(Tail(s), {i - 1 : i \in keep \ {1}})
         IN  IF 1 \in keep THEN <<Head(s)>> \o rest ELSE rest

InitIndex ==
    /\ pc = "start"
    /\ result = NoResult
    /\ previous = NoResult
    /\ files = InitialisedFiles
    /\ rating_engine = TRUE
    /\ transform_module = ExampleModule
    /\ session = EmptySession
    /\ data_files = NoDataFiles
    /\ banding_config = <<>>
    /\ rating_table = <<>>
    /\ join_columns = <<>>
    /\ \E configured \in SUBSET (1..Len(IndexedFields)),
          mapping \in [1..Len(IndexedFields) -> Mappings] :
          category_config =
              Select([i \in 1..Len(IndexedFields) |-> <<IndexedFields[i], mapping[i]>>],
                     configured)
    /\ \E present \in SUBSET (1..Len(IndexedFields)),
          cell \in [1..Len(IndexedFields) -> CategoryCells] :
          df = [columns |-> <<"IDpol">> \o Select(IndexedFields, present),
                rows |-> << [c \in {"IDpol"} \cup {IndexedFields[i] : i \in present} |->
                               IF c = "IDpol" THEN Num(1)
                               ELSE cell[CHOOSE i \in present : IndexedFields[i] = c]] >>]

\* process_data's indexing step
UtilsIndex ==
    /\ pc = "start"
    /\ result' = utils_apply_category_mapping(df, category_config)
    /\ pc' = "utils_indexed"
    /\ UNCHANGED <<df, banding_config, category_config, rating_table, join_columns,
                  previous, files, rating_engine,
                  transform_module, session, data_files>>

\* the indexing step of the quote-rating path (_process_quotes)
TransformerIndex ==
    /\ pc = "start"
    /\ result' = transformer_apply_category_indexing(df, category_config)
    /\ pc' = "transformer_indexed"
    /\ UNCHANGED <<df, banding_config, category_config, rating_table, join_columns,
                  previous, files, rating_engine,
                  transform_module, session, data_files>>

NextIndex == UtilsIndex \/ TransformerIndex

SpecIndex == InitIndex /\ [][NextIndex]_vars

----------------------------------------------------------------------------
(* The rating-table join *)

\* a join that treats two null keys as equal
KeysEqualNullsMatch(left, right, on) ==
    \A k \in DOMAIN on : left[on[k]] = right[on[k]]

\* a join that compares the first join column only
KeysEqualFirstOnly(left, right, on) ==
    left[on[1]] # Null /\ left[on[1]] = right[on[1]]

\* two rows agree on every join column; a null key equals nothing, not even null
KeysEqual(left, right, on) ==
    \A k \in DOMAIN on : left[on[k]] # Null /\ left[on[k]] = right[on[k]]

\* the columns of the table that are not join columns, in table order
RECURSIVE OtherColumns(_, _)
OtherColumns(columns, on) ==
    IF columns = <<>> THEN <<>>
    ELSE IF Head(columns) \in Range(on) THEN OtherColumns(Tail(columns), on)
    ELSE <<Head(columns)>> \o OtherColumns(Tail(columns), on)

\* a table column whose name the frame already has is added as <name>_right
JoinedName(frame, c) == IF HasColumn(frame, c) THEN c \o "_right" ELSE c

\* the joined row of a left row and a table row
JoinedRow(frame, left, right, others) ==
    [c \in DOMAIN left \cup {JoinedName(frame, others[k]) : k \in DOMAIN others} |->
        IF c \in DOMAIN left THEN left[c]
        ELSE right[others[CHOOSE k \in DOMAIN others : JoinedName(frame, others[k]) = c]]]

\* the table rows matching left row i, in table order, each joined to it
RECURSIVE MatchesOf(_, _, _, _, _)
MatchesOf(frame, left, table, on, j) ==
    IF j > Len(table.rows) THEN <<>>
    ELSE (IF KeysEqual(left, table.rows[j], on)
          THEN <<JoinedRow(frame, left, table.rows[j], OtherColumns(table.columns, on))>>
          ELSE <<>>)
         \o MatchesOf(frame, left, table, on, j + 1)

\* the joined rows with the frame's rows outermost: record by record, the matches of
\* each in table order
RECURSIVE InnerJoinRows(_, _, _, _)
InnerJoinRows(frame, table, on, i) ==
    IF i > Len(frame.rows) THEN <<>>
    ELSE MatchesOf(frame, frame.rows[i], table, on, 1) \o InnerJoinRows(frame, table, on, i + 1)

\* the records matching table row j, in record order, each joined to it
RECURSIVE RecordsOf(_, _, _, _, _)
RecordsOf(frame, table, on, j, i) ==
    IF i > Len(frame.rows) THEN <<>>
    ELSE (IF KeysEqual(frame.rows[i], table.rows[j], on)
          THEN <<JoinedRow(frame, frame.rows[i], table.rows[j],
                           OtherColumns(table.columns, on))>>
          ELSE <<>>)
         \o RecordsOf(frame, table, on, j, i + 1)

\* the joined rows with the table's rows outermost
RECURSIVE InnerJoinRowsByTable(_, _, _, _)
InnerJoinRowsByTable(frame, table, on, j) ==
    IF j > Len(table.rows) THEN <<>>
    ELSE RecordsOf(frame, table, on, j, 1) \o InnerJoinRowsByTable(frame, table, on, j + 1)

\* df.join is called without maintain_order, and polars then promises no row order
\* for an inner join: the hash join may be driven by either side
RowOrders == {"left", "right"}

\* df.join(rating_table, on=join_columns): how defaults to "inner"
InnerJoin(frame, table, on, order) ==
    LET others == OtherColumns(table.columns, on)
        added == [k \in DOMAIN others |-> JoinedName(frame, others[k])]
    IN  IF \E k \in DOMAIN on : ~HasColumn(frame, on[k]) \/ ~HasColumn(table, on[k])
        THEN Raised("ColumnNotFoundError")
        ELSE IF \E k \in DOMAIN added : HasColumn(frame, added[k])
        THEN Raised("DuplicateError")
        ELSE Returned([columns |-> frame.columns \o added,
                       rows |-> IF order = "left"
                                THEN InnerJoinRows(frame, table, on, 1)
                                ELSE InnerJoinRowsByTable(frame, table, on, 1)])

\* a table file that does not exist
MissingFile == [exists |-> FALSE]

\* algorithms.rating.utils.table_loader.load_and_join_rating_table(df, table_name,
\* join_columns); table is what the table's file holds.  pl.read_csv raises
\* FileNotFoundError for a file that does not exist and nothing catches it.
load_and_join_rating_table(frame, table, on, order) ==
    IF table = MissingFile THEN Raised("FileNotFoundError")
    ELSE InnerJoin(frame, table, on, order)

----------------------------------------------------------------------------
(* The join specification: a batch of records with two key columns, a      *)
(* rating table keyed by them, joined on the first key or on both          *)

\* largest number of records in a batch
MaxRows == 2
\* largest number of rows of a rating table
MaxTableRows == 2

KeyColumns == <<"Area", "VehAgeBand">>
AreaCells == {Str("A"), Str("B"), Null}
BandKeyCells == {Str("0-5"), Str("6+")}

\* the records of a batch are numbered by IDpol
Batches ==
    UNION {[1..n -> AreaCells \X BandKeyCells] : n \in 1..MaxRows}

MakeBatch(keys) ==
    [columns |-> <<"IDpol">> \o KeyColumns,
     rows |-> [i \in DOMAIN keys |->
                 [IDpol |-> Num(i), Area |-> keys[i][1], VehAgeBand |-> keys[i][2]]]]

\* row j of a table carries its own factor
Tables ==
    UNION {[1..n -> AreaCells \X BandKeyCells] : n \in 0..MaxTableRows}

MakeTable(keys) ==
    [columns |-> KeyColumns \o <<"Factor">>,
     rows |-> [j \in DOMAIN keys |->
                 [Area |-> keys[j][1], VehAgeBand |-> keys[j][2], Factor |-> Num(j)]]]

InitJoin ==
    /\ pc = "start"
    /\ result = NoResult
    /\ previous = NoResult
    /\ files = InitialisedFiles
    /\ rating_engine = TRUE
    /\ transform_module = ExampleModule
    /\ session = EmptySession
    /\ data_files = NoDataFiles
    /\ banding_config = <<>>
    /\ category_config = <<>>
    /\ \E keys \in Batches : df = MakeBatch(keys)
    /\ \E keys \in Tables : rating_table = MakeTable(keys)
    /\ join_columns \in {<<"Area">>, KeyColumns}

\* the first rating join of a batch
Join ==
    /\ pc = "start"
    /\ \E order \in RowOrders :
          result' = load_and_join_rating_table(df, rating_table, join_columns, order)
    /\ pc' = "joined"
    /\ UNCHANGED <<df, banding_config, category_config, rating_table, join_columns,
                  previous, files, rating_engine,
                  transform_module, session, data_files>>

\* a further rating join, applied to the output of the first
JoinAgain ==
    /\ pc = "joined"
    /\ result.status = "returned"
    /\ \E order \in RowOrders :
          result' = load_and_join_rating_table(result.df, rating_table, join_columns, order)
    /\ pc' = "joined_twice"
    /\ UNCHANGED <<df, banding_config, category_config, rating_table, join_columns,
                  previous, files, rating_engine,
                  transform_module, session, data_files>>

NextJoin == Join \/ JoinAgain

SpecJoin == InitJoin /\ [][NextJoin]_vars

----------------------------------------------------------------------------
(* The quote-rating path of the rating engine *)

(* Amounts and factors are exact decimals counted in thousandths: 10.01 is      *)
(* Num(10010) and the factor 0.8 is Num(800).                                    *)
Thousand == 1000

\* python float(x) of a cell read from a frame: a number, or the text of a number,
\* converts; other text raises ValueError and None raises TypeError
FloatOf(cell) ==
    IF IsNum(cell) THEN [ok |-> TRUE, value |-> cell[2]]
    ELSE IF IsNumberText(cell) THEN [ok |-> TRUE, value |-> cell[3]]
    ELSE [ok |-> FALSE, value |-> 0]

\* Expr.replace(old, new) with two lists: a cell equal to old[k] becomes new[k] cast
\* to the column's dtype, and every other cell is kept.  The columns replaced here
\* (Area, PowerGroup) hold strings, so the floats put in become text.
ReplaceLists(cell, old, new) ==
    IF \E k \in DOMAIN old : old[k] = cell
    THEN NumberText(new[CHOOSE k \in DOMAIN old : old[k] = cell][2])
    ELSE cell

\* a loader that takes a missing file for a table without rows
LoadBaseValuesOrEmpty(file) ==
    IF file = MissingFile THEN [columns |-> <<"Area", "Base">>, rows |-> <<>>] ELSE file

\* rating_engine.load_base_values(): the table of base-values.csv, or None when the
\* file does not exist
load_base_values(file) == IF file = MissingFile THEN None ELSE file

\* the cells of a column, top to bottom: df[column].to_list()
ToList(frame, column) == [i \in DOMAIN frame.rows |-> frame.rows[i][column]]

\* rating_engine.apply_base_rating(df): the frame it returns (the second element of
\* the returned pair is not used by the quote path)
apply_base_rating(frame, base_values_file) ==
    LET base_values_df == load_base_values(base_values_file) IN
    IF ~HasColumn(frame, "Area") THEN frame
    ELSE IF base_values_df = None THEN frame
    ELSE LET area_values == ToList(base_values_df, "Area")
             base_values == ToList(base_values_df, "Base")
         IN  WithColumn(frame, "BaseValue",
                [i \in DOMAIN frame.rows |->
                    ReplaceLists(frame.rows[i]["Area"], area_values, base_values)])

\* power_factors.get(pg, 1.0)
PowerFactor(pg) ==
    IF pg = Str("Low") THEN Num(800)
    ELSE IF pg = Str("Medium") THEN Num(1000)
    ELSE IF pg = Str("High") THEN Num(1200)
    ELSE Num(1000)

\* the distinct cells of a sequence, in order of first appearance: unique().to_list()
RECURSIVE Unique(_)
Unique(s) ==
    IF s = <<>> THEN <<>>
    ELSE LET front == Unique(SubSeq(s, 1, Len(s) - 1))
         IN  IF s[Len(s)] \in Range(front) THEN front ELSE Append(front, s[Len(s)])

\* the product of two decimals
Times(a, b) == (a * b) \div Thousand

\* rating_engine.calculate_premium(df).  The product of two columns exists only
\* when both are numeric; on string columns the expression raises, the except
\* clause logs it and the frame is returned without a Premium column.
calculate_premium(frame) ==
    IF ~HasColumn(frame, "BaseValue") THEN frame
    ELSE IF HasColumn(frame, "PowerGroup")
    THEN LET power_groups == Unique(ToList(frame, "PowerGroup"))
             factors == [k \in DOMAIN power_groups |-> PowerFactor(power_groups[k])]
             factor == [i \in DOMAIN frame.rows |->
                          ReplaceLists(frame.rows[i]["PowerGroup"], power_groups, factors)]
         IN  IF \A i \in DOMAIN frame.rows :
                    IsNum(frame.rows[i]["BaseValue"]) /\ IsNum(factor[i])
             THEN WithColumn(frame, "Premium",
                     [i \in DOMAIN frame.rows |->
                         Num(Times(frame.rows[i]["BaseValue"][2], factor[i][2]))])
             ELSE frame
    ELSE WithColumn(frame, "Premium", ToList(frame, "BaseValue"))

\* rating_engine._process_quotes(quotes_data), frame being pl.DataFrame(quotes_data)
process_quotes(frame, category_index, base_values_df) ==
    IF frame.rows = <<>> THEN Raised("ValueError")
    ELSE LET indexed == transformer_apply_category_indexing(frame, category_index).df
             based == apply_base_rating(indexed, base_values_df)
         IN  IF ~HasColumn(based, "BaseValue") THEN Raised("ValueError")
             ELSE Returned(calculate_premium(based))

\* col.endswith("Factor") for the column names of the model
ColumnStems == {"Load", "Area", "Power"}
EndsWithFactor(col) == \E stem \in ColumnStems : col = stem \o "Factor"

\* rating_engine._extract_premium_and_factors(df, row_index): the premium and the
\* factors dict, or the exception float() raised
extract_premium_and_factors(frame, row_index) ==
    LET row == frame.rows[row_index]
        premium == IF HasColumn(frame, "Premium") THEN FloatOf(row["Premium"])
                   ELSE FloatOf(row["BaseValue"])
        factor_columns == {c \in Range(frame.columns) : EndsWithFactor(c)}
    IN  IF ~premium.ok \/ ~FloatOf(row["BaseValue"]).ok
           \/ \E c \in factor_columns : ~FloatOf(row[c]).ok
        THEN [ok |-> FALSE]
        ELSE [ok |-> TRUE,
              premium |-> premium.value,
              factors |-> [c \in {"base_value"} \cup factor_columns |->
                             IF c = "base_value" THEN FloatOf(row["BaseValue"]).value
                             ELSE FloatOf(row[c]).value]]

\* a loop that reads the first row of the processed frame for every quote
QuoteResultsOfFirstRow(processed, n) ==
    IF processed.status = "raised" THEN Raised("ValueError")
    ELSE IF \E i \in 1..n : ~extract_premium_and_factors(processed.df, i).ok
    THEN Raised("ValueError")
    ELSE [status |-> "returned",
          quotes |-> [i \in 1..n |->
                        LET e == extract_premium_and_factors(processed.df, 1)
                        IN  [premium |-> e.premium, factors |-> e.factors]]]

\* the list of {"premium", "factors"} built for rows 1..n of a processed frame; any
\* exception on the way is re-raised as ValueError
QuoteResults(processed, n) ==
    IF processed.status = "raised" THEN Raised("ValueError")
    ELSE IF \E i \in 1..n : ~extract_premium_and_factors(processed.df, i).ok
    THEN Raised("ValueError")
    ELSE [status |-> "returned",
          quotes |-> [i \in 1..n |->
                        LET e == extract_premium_and_factors(processed.df, i)
                        IN  [premium |-> e.premium, factors |-> e.factors]]]

\* the frame holding only row i of a frame: pl.DataFrame([quote_data])
OnlyRow(frame, i) == [columns |-> frame.columns, rows |-> <<frame.rows[i]>>]

\* rating_engine.process_single_quote(quote_data)
process_single_quote(frame, category_index, base_values_df) ==
    QuoteResults(process_quotes(frame, category_index, base_values_df), 1)

\* rating_engine.process_batch_quotes(quotes_data)
process_batch_quotes(frame, category_index, base_values_df) ==
    QuoteResults(process_quotes(frame, category_index, base_values_df), Len(frame.rows))

----------------------------------------------------------------------------
(* The quote specification: a batch of quotes with an Area, with or without *)
(* a PowerGroup and a LoadFactor field, and a base-values table             *)

\* largest number of quotes in a batch
MaxQuotes == 2

QuoteAreas == {Str("A"), Str("B"), Str("Z")}
QuotePowerGroups == {Str("Low"), Str("High")}

\* the base values a table may hold: 10.00, 10.01 and 10.005
BaseAmounts == {10000, 10010, 10005}

\* base-values.csv: one row per area it knows, among A and B
BaseTables ==
    {[columns |-> <<"Area", "Base">>,
      rows |-> Select(<< [Area |-> Str("A"), Base |-> Num(a)],
                         [Area |-> Str("B"), Base |-> Num(b)] >>, known)] :
        a \in BaseAmounts, b \in BaseAmounts, known \in SUBSET {1, 2}}

\* the frame of a batch: every quote has an Area; the batch has a PowerGroup field
\* or not, and a LoadFactor field (2.0) or not
QuoteFrame(areas, groups, has_group, has_load) ==
    LET columns == <<"Area">> \o (IF has_group THEN <<"PowerGroup">> ELSE <<>>)
                              \o (IF has_load THEN <<"LoadFactor">> ELSE <<>>)
    IN  [columns |-> columns,
         rows |-> [i \in DOMAIN areas |->
                     [c \in Range(columns) |->
                        IF c = "Area" THEN areas[i]
                        ELSE IF c = "PowerGroup" THEN groups[i]
                        ELSE Num(2000)]]]

InitQuote ==
    /\ pc = "start"
    /\ result = NoResult
    /\ previous = NoResult
    /\ files = InitialisedFiles
    /\ rating_engine = TRUE
    /\ transform_module = ExampleModule
    /\ session = EmptySession
    /\ data_files = NoDataFiles
    /\ banding_config = <<>>
    /\ join_columns = <<"Area">>
    /\ category_config \in {<<>>, << <<"Area", [A |-> 0]>> >>}
    /\ rating_table \in BaseTables \cup {MissingFile}
    /\ \E n \in 1..MaxQuotes :
          \E areas \in [1..n -> QuoteAreas], groups \in [1..n -> QuotePowerGroups],
             has_group \in BOOLEAN, has_load \in BOOLEAN :
             df = QuoteFrame(areas, groups, has_group, has_load)

\* POST /calculate_premium: the first quote of the batch on its own
SingleQuote ==
    /\ pc = "start"
    /\ result' = process_single_quote(OnlyRow(df, 1), category_config, rating_table)
    /\ pc' = "single_quote"
    /\ UNCHANGED <<df, banding_config, category_config, rating_table, join_columns,
                  previous, files, rating_engine,
                  transform_module, session, data_files>>

\* POST /calculate_premiums_batch
BatchQuotes ==
    /\ pc = "start"
    /\ result' = process_batch_quotes(df, category_config, rating_table)
    /\ pc' = "batch_quotes"
    /\ UNCHANGED <<df, banding_config, category_config, rating_table, join_columns,
                  previous, files, rating_engine,
                  transform_module, session, data_files>>

\* rating_engine.apply_base_rating called on the batch by itself: every path of it
\* returns, its whole body being inside try/except
BaseRating ==
    /\ pc = "start"
    /\ result' = Returned(apply_base_rating(df, rating_table))
    /\ pc' = "base_rated"
    /\ UNCHANGED <<df, banding_config, category_config, rating_table, join_columns,
                  previous, files, rating_engine,
                  transform_module, session, data_files>>

\* the rating join of the batch with the same table file, on Area
TableJoin ==
    /\ pc = "start"
    /\ \E order \in RowOrders :
          result' = load_and_join_rating_table(df, rating_table, join_columns, order)
    /\ pc' = "table_joined"
    /\ UNCHANGED <<df, banding_config, category_config, rating_table, join_columns,
                  previous, files, rating_engine,
                  transform_module, session, data_files>>

NextQuote == SingleQuote \/ BatchQuotes \/ BaseRating \/ TableJoin

SpecQuote == InitQuote /\ [][NextQuote]_vars

----------------------------------------------------------------------------
(* Properties of the banders *)

\* the configuration of the banded field, as the specification of the bander reads it
B_config == banding_config[1][2]
B_bands == B_config["bands"]
B_min_inclusive == IF "min_inclusive" \in DOMAIN B_config THEN B_config["min_inclusive"] ELSE TRUE
B_max_exclusive == IF "max_exclusive" \in DOMAIN B_config THEN B_config["max_exclusive"] ELSE TRUE
B_output_field ==
    IF "column_name" \in DOMAIN B_config THEN B_config["column_name"] ELSE "VehAgeBand"
B_present == HasColumn(df, BandedField)
B_cell == df.rows[1][BandedField]
B_banded == pc \in {"utils_banded", "transformer_banded"}

\* membership of a number in a band's interval under the field's flags
Contains(v, band) ==
    /\ IF B_min_inclusive THEN band.min <= v ELSE band.min < v
    /\ IF B_max_exclusive THEN v < band.max ELSE v <= band.max

\* the bands, by position, whose interval contains the record's value
B_matching ==
    IF B_present /\ IsNum(B_cell)
    THEN {i \in 1..Len(B_bands) : Contains(B_cell[2], B_bands[i])}
    ELSE {}

\* the label the operation wrote for the record, when it wrote one
B_written == result.status = "returned" /\ HasColumn(result.df, B_output_field)
B_label == result.df.rows[1][B_output_field]

\* C1: in both banders, a value that lies in at least one band gets the label of the
\* first band in declared order that contains it, whatever later bands also contain it
C1_FirstMatchWins ==
    (B_banded /\ B_matching # {}) =>
        /\ B_written
        /\ \E i \in B_matching :
              /\ \A j \in B_matching : i <= j
              /\ B_label = B_bands[i].label

\* C1 witness: three bands, the value lies in the second and the third but not the
\* first, and the bander of process_data has labelled it with the second
C1_Witness ==
    /\ pc = "utils_banded"
    /\ B_matching = {2, 3}
    /\ B_written
    /\ B_label = B_bands[2].label

\* C2: the bander of process_data writes the output field for every field present in
\* record and config, and a value in none of the bands gets null, never a band's label
C2_NoMatchIsNull ==
    (pc = "utils_banded" /\ B_present /\ ~IsStr(B_cell)) =>
        /\ B_written
        /\ (B_matching = {} => B_label = Null)

\* the no-match value of each bander
B_sentinel == IF pc = "utils_banded" THEN Null ELSE Str("Unknown")

\* bands that tile a range: each band starts where the previous one ends, and the
\* flags do not make two neighbours share their boundary
B_adjacent ==
    /\ B_bands # <<>>
    /\ \A i \in 1..(Len(B_bands) - 1) : B_bands[i].max = B_bands[i + 1].min
    /\ ~(B_min_inclusive /\ ~B_max_exclusive)

\* C3: with non-overlapping adjacent bands, a value on a band's min gets that band
\* when min is inclusive; a value on a band's max gets that band when max is not
\* exclusive and otherwise the next band (which contains it when min is inclusive),
\* or the no-match value after the last band
C3_Boundaries ==
    (B_banded /\ B_present /\ IsNum(B_cell) /\ B_adjacent) =>
        /\ B_written
        /\ \A i \in 1..Len(B_bands) :
              /\ (B_cell[2] = B_bands[i].min /\ B_min_inclusive)
                    => B_label = B_bands[i].label
              /\ (B_cell[2] = B_bands[i].max /\ ~B_max_exclusive)
                    => B_label = B_bands[i].label
              /\ (B_cell[2] = B_bands[i].max /\ B_max_exclusive /\ i < Len(B_bands)
                    /\ B_min_inclusive)
                    => B_label = B_bands[i + 1].label
              /\ (B_cell[2] = B_bands[i].max /\ B_max_exclusive /\ i = Len(B_bands))
                    => B_label = B_sentinel

\* C10: a present but non-numeric value of a banded field makes the bander fail with
\* InvalidBandInputError and return nothing, while a field absent from the record is
\* skipped without error and without a new field
C10_NonNumericIsTypedError ==
    /\ (B_banded /\ B_present /\ IsStr(B_cell) /\ B_bands # <<>>) =>
          (result.status = "raised" /\ result.error = "InvalidBandInputError")
    /\ (B_banded /\ ~B_present) =>
          (result.status = "returned" /\ result.df = df)

----------------------------------------------------------------------------
(* Properties of the indexers *)

\* the raw value of a column in the input record
I_raw(column) == df.rows[1][column]

\* the raw value is a key of the mapping
I_mapped(column, mapping) == IsStr(I_raw(column)) /\ I_raw(column)[2] \in DOMAIN mapping

\* how many columns of a frame carry a name
I_count(frame, name) == Cardinality({i \in DOMAIN frame.columns : frame.columns[i] = name})

\* C4: apply_category_mapping adds, for every config field present in the record,
\* exactly one column <field>_Index holding mapping[raw value] or null when the raw
\* value is no key; a config field absent from the record adds nothing and raises
\* nothing, and the other fields are still indexed
C4_CategoryMapping ==
    (pc = "utils_indexed") =>
        /\ result.status = "returned"
        /\ \A k \in DOMAIN category_config :
              LET column == category_config[k][1]
                  mapping == category_config[k][2]
                  index == column \o "_Index"
              IN  IF HasColumn(df, column)
                  THEN /\ I_count(result.df, index) = 1
                       /\ result.df.rows[1][index] =
                             IF I_mapped(column, mapping)
                             THEN Num(mapping[I_raw(column)[2]])
                             ELSE Null
                  ELSE I_count(result.df, index) = 0
        /\ Len(result.df.columns) = Len(df.columns)
              + Cardinality({k \in DOMAIN category_config :
                                HasColumn(df, category_config[k][1])})

\* C4 witness: both fields are configured, Area is absent from the record and gets
\* no column, VehGas is present with an unmapped value and is indexed as null
C4_Witness ==
    /\ pc = "utils_indexed"
    /\ Len(category_config) = 2
    /\ ~HasColumn(df, "Area")
    /\ HasColumn(df, "VehGas")
    /\ ~I_mapped("VehGas", category_config[2][2])
    /\ result.status = "returned"
    /\ ~HasColumn(result.df, "Area_Index")
    /\ result.df.rows[1]["VehGas_Index"] = Null

\* C5: apply_category_indexing gives a record whose raw value has no entry in the
\* field's mapping <field>_indexed = null, never the raw value and never no column,
\* and raises nothing
C5_UnmappedIsNull ==
    (pc = "transformer_indexed") =>
        /\ result.status = "returned"
        /\ \A k \in DOMAIN category_config :
              LET column == category_config[k][1]
                  mapping == category_config[k][2]
              IN  (HasColumn(df, column) /\ ~I_mapped(column, mapping)) =>
                      /\ HasColumn(result.df, column \o "_indexed")
                      /\ result.df.rows[1][column \o "_indexed"] = Null

----------------------------------------------------------------------------
(* Properties of the rating join *)

\* the table rows, by position, that equal input record i on every join column
J_matches(i) ==
    {j \in DOMAIN rating_table.rows :
        \A c \in Range(join_columns) :
            /\ df.rows[i][c] # Null
            /\ df.rows[i][c] = rating_table.rows[j][c]}

\* the output rows, by position, that stem from input record i
J_outputs(i) == {r \in DOMAIN result.df.rows : result.df.rows[r]["IDpol"] = Num(i)}

\* C6: the join is an inner join by equality on every join column: a record is in
\* the output exactly when some table row equals it on all join columns, each of its
\* output rows carries the record's fields and the factor of a matching row, and a
\* record with no matching row (a null key matches nothing) is dropped without error
C6_InnerJoin ==
    (pc = "joined") =>
        /\ result.status = "returned"
        /\ \A i \in DOMAIN df.rows :
              /\ J_outputs(i) # {} <=> J_matches(i) # {}
              /\ \A r \in J_outputs(i) :
                    /\ \A c \in DOMAIN df.rows[i] : result.df.rows[r][c] = df.rows[i][c]
                    /\ \E j \in J_matches(i) :
                          result.df.rows[r]["Factor"] = rating_table.rows[j]["Factor"]
              /\ \A j \in J_matches(i) :
                    \E r \in J_outputs(i) :
                        result.df.rows[r]["Factor"] = rating_table.rows[j]["Factor"]

\* C6 witness: a batch of two joined on both key columns; the first record has a
\* matching row and is in the output with its factor, the second has a null Area
\* that the table also holds, and is dropped
C6_Witness ==
    /\ pc = "joined"
    /\ join_columns = KeyColumns
    /\ Len(df.rows) = 2
    /\ df.rows[2]["Area"] = Null
    /\ \E j \in DOMAIN rating_table.rows : rating_table.rows[j]["Area"] = Null
    /\ result.status = "returned"
    /\ Len(result.df.rows) = 1
    /\ result.df.rows[1]["IDpol"] = Num(1)
    /\ result.df.rows[1]["Factor"] # Null

\* the operation has returned a joined frame
J_joined == pc \in {"joined", "joined_twice"} /\ result.status = "returned"

\* C7 as stated: for every rating table and every list of join columns, a join, and
\* a sequence of joins, returns at most as many records as it was given
C7_NeverMoreRecords ==
    J_joined => Len(result.df.rows) <= Len(df.rows)

\* no two rows of the table agree on every join column
J_unique_keys ==
    \A j1, j2 \in DOMAIN rating_table.rows :
        (\A c \in Range(join_columns) : rating_table.rows[j1][c] = rating_table.rows[j2][c])
            => j1 = j2

\* C7 amended: for every rating table whose rows are pairwise distinct on the join
\* columns, a join, and a sequence of joins, returns at most as many records as it
\* was given
C7_NeverMoreRecordsUniqueKeys ==
    (J_joined /\ J_unique_keys) => Len(result.df.rows) <= Len(df.rows)

\* C7 witness: two joins against a table with unique keys have dropped one record
\* of a batch of two and kept the other
C7_Witness ==
    /\ pc = "joined_twice"
    /\ result.status = "returned"
    /\ J_unique_keys
    /\ Len(rating_table.rows) = 2
    /\ Len(df.rows) = 2
    /\ Len(result.df.rows) = 1

----------------------------------------------------------------------------
(* Properties of the quote-rating path *)

\* the engine has answered with premiums
Q_answered == pc \in {"single_quote", "batch_quotes"} /\ result.status = "returned"

\* the product of the reported factors named in keys, starting from 1.0
RECURSIVE Q_product(_, _)
Q_product(factors, keys) ==
    IF keys = {} THEN Thousand
    ELSE LET k == CHOOSE x \in keys : TRUE
         IN  Times(factors[k], Q_product(factors, keys \ {k}))

\* C8: the premium returned for a quote is its base value multiplied by the rating
\* factors applied to it, and these are the factors reported with the base value, so
\* that the base value times the reported factors reproduces the premium
C8_PremiumIsProductOfFactors ==
    Q_answered =>
        \A i \in DOMAIN result.quotes :
            result.quotes[i].premium =
                Q_product(result.quotes[i].factors, DOMAIN result.quotes[i].factors)

\* C9: every premium the rating engine returns has at most two decimal digits
C9_RoundedToTwoDecimals ==
    Q_answered =>
        \A i \in DOMAIN result.quotes : result.quotes[i].premium % 10 = 0

----------------------------------------------------------------------------
(* Properties of a missing rating table *)

----------------------------------------------------------------------------
(* The transformation pipeline: process_data and the caller that rates its  *)
(* output                                                                   *)

\* a config file that exists but cannot be loaded: unreadable, zero bytes, or not
\* JSON; open() or json.load raises
GarbledFile == [exists |-> TRUE, valid |-> FALSE]

\* a config file holding a JSON object, given as its items in order
JsonFile(data) == [exists |-> TRUE, valid |-> TRUE, data |-> data]

\* a loader that falls back on a built-in category config when the file cannot be
\* loaded
ConfigOrDefault(file) ==
    IF file = MissingFile \/ file = GarbledFile THEN << <<"Area", [A |-> 0]>> >>
    ELSE file.data

\* "load_config_json(path) or {}": load_config_json returns None on any exception,
\* and None and {} both give {}
ConfigOrEmpty(file) ==
    IF file = MissingFile \/ file = GarbledFile THEN <<>> ELSE file.data

\* algorithms.pipeline.utils.load_transformation_configs(config_dir)
load_transformation_configs(category_file, banding_file) ==
    [category_config |-> ConfigOrEmpty(category_file),
     banding_config |-> ConfigOrEmpty(banding_file)]

\* py_pricer.transformer.load_factor_config() and load_continuous_bands(): the
\* loaded object when it is truthy, {} otherwise
load_factor_config(file) == ConfigOrEmpty(file)
load_continuous_bands(file) == ConfigOrEmpty(file)

\* algorithms.pipeline.additional_transforms.transform_data(df): the user's own
\* transform, which the pipeline of the specification does not have; none is installed
transform_data(frame) == frame

\* process_data's steps 2 and 3 on the transformed frame: banding, then category
\* mapping of the banded frame; an exception of the bander ends the call
BandThenIndex(frame, category_config_, banding_config_) ==
    LET banded == utils_apply_continuous_banding(frame, banding_config_)
    IN  IF banded.status = "raised" THEN banded
        ELSE utils_apply_category_mapping(banded.df, category_config_)

\* algorithms.pipeline.data_processor.process_data(df)
process_data(frame, category_file, banding_file) ==
    LET configs == load_transformation_configs(category_file, banding_file)
    IN  BandThenIndex(transform_data(frame), configs.category_config,
                      configs.banding_config)

\* algorithms.rating.rating_engine.rate_policies(df): the rating composer with one
\* table spec, which loads the table and joins the records to it
rate_policies(frame, table, on, order) ==
    load_and_join_rating_table(frame, table, on, order)

----------------------------------------------------------------------------
(* The pipeline specification: a batch of records with an Area and a VehAge,  *)
(* the two config files each missing, garbled, empty or holding a config, and *)
(* one rating table keyed by Area                                             *)

PipelineAreas == {Str("A"), Str("Z")}
PipelineAges == {Num(0), Num(2), Null, Str("old")}

\* a column of a DataFrame has one dtype: numbers and strings do not share a column
OneDtype(cells) ==
    ~(\E i \in DOMAIN cells : IsNum(cells[i])) \/ ~(\E i \in DOMAIN cells : IsStr(cells[i]))

\* the records of a batch are numbered by IDpol
PipelineBatches ==
    {[columns |-> <<"IDpol", "Area", "VehAge">>,
      rows |-> [i \in DOMAIN areas |->
                  [IDpol |-> Num(i), Area |-> areas[i], VehAge |-> ages[i]]]] :
        <<areas, ages>> \in
            UNION {{aa \in [1..n -> PipelineAreas] \X [1..n -> PipelineAges] :
                        OneDtype(aa[2])} : n \in 1..MaxRows}}

\* category-index.json: "A" is mapped, "Z" is not
CategoryFiles ==
    {MissingFile, GarbledFile, JsonFile(<<>>), JsonFile(<< <<"Area", [A |-> 0]>> >>)}

\* the bands [0, 1) and [1, 2) of VehAge
PipelineBands ==
    << [min |-> 0, max |-> 1, label |-> Str("B1")],
       [min |-> 1, max |-> 2, label |-> Str("B2")] >>

\* continuous-banding.json: the band column has its default name, or is named after
\* a field the records already have
BandingFiles ==
    {MissingFile, GarbledFile, JsonFile(<<>>),
     JsonFile(<< <<"VehAge", [bands |-> PipelineBands]>> >>),
     JsonFile(<< <<"VehAge", [bands |-> PipelineBands, column_name |-> "Area"]>> >>)}

\* the rating table's file
PipelineTables ==
    {MissingFile,
     [columns |-> <<"Area", "Factor">>,
      rows |-> << [Area |-> Str("A"), Factor |-> Num(1)],
                  [Area |-> Str("Z"), Factor |-> Num(2)] >>]}

InitPipeline ==
    /\ pc = "RAW"
    /\ result = NoResult
    /\ previous = NoResult
    /\ files = InitialisedFiles
    /\ rating_engine = TRUE
    /\ transform_module = ExampleModule
    /\ session = EmptySession
    /\ data_files = NoDataFiles
    /\ df \in PipelineBatches
    /\ category_config \in CategoryFiles
    /\ banding_config \in BandingFiles
    /\ rating_table \in PipelineTables
    /\ join_columns = <<"Area">>

\* category mapping run on the raw batch, ahead of the banding step
IndexFirst ==
    /\ pc = "RAW"
    /\ result' = utils_apply_category_mapping(df,
                    load_transformation_configs(category_config, banding_config).category_config)
    /\ pc' = "INDEXED"
    /\ UNCHANGED <<df, banding_config, category_config, rating_table, join_columns,
                  previous, files, rating_engine,
                  transform_module, session, data_files>>

\* process_data, steps 1 and 2: the user transform, then continuous banding with
\* the loaded banding config
Band ==
    /\ pc = "RAW"
    /\ result' = utils_apply_continuous_banding(transform_data(df),
                    load_transformation_configs(category_config, banding_config).banding_config)
    /\ pc' = IF result'.status = "raised" THEN "FAILED" ELSE "BANDED"
    /\ UNCHANGED <<df, banding_config, category_config, rating_table, join_columns,
                  previous, files, rating_engine,
                  transform_module, session, data_files>>

\* process_data, step 3: category mapping of the banded frame with the loaded
\* category config; its output is what process_data returns
Index ==
    /\ pc = "BANDED"
    /\ result' = utils_apply_category_mapping(result.df,
                    load_transformation_configs(category_config, banding_config).category_config)
    /\ pc' = "INDEXED"
    /\ UNCHANGED <<df, banding_config, category_config, rating_table, join_columns,
                  previous, files, rating_engine,
                  transform_module, session, data_files>>

\* process_quote (and the streamlit app) after process_data returned: the
\* transformed frame is kept and rate_policies is applied to it
Rate ==
    /\ pc = "INDEXED"
    /\ previous' = result
    /\ \E order \in RowOrders :
          result' = rate_policies(result.df, rating_table, join_columns, order)
    /\ pc' = IF result'.status = "raised" THEN "FAILED" ELSE "RATED"
    /\ UNCHANGED <<df, banding_config, category_config, rating_table, join_columns,
                  files, rating_engine,
                  transform_module, session, data_files>>

NextPipeline == Band \/ Index \/ Rate

SpecPipeline == InitPipeline /\ [][NextPipeline]_vars

----------------------------------------------------------------------------
(* Properties of the pipeline's stage order *)

----------------------------------------------------------------------------
(* The stage specification: each transform operation called on the raw batch  *)
(* with the config files as they are, and called a second time                *)

Operations ==
    {"utils_indexing", "utils_banding", "process_data",
     "transformer_indexing", "transformer_banding"}

\* the call of one operation on a frame; each operation loads its config from the
\* files itself (process_data for the two operations of algorithms.pipeline.utils)
Call(op, frame, category_file, banding_file) ==
    CASE op = "utils_indexing" ->
            utils_apply_category_mapping(frame,
                load_transformation_configs(category_file, banding_file).category_config)
      [] op = "utils_banding" ->
            utils_apply_continuous_banding(frame,
                load_transformation_configs(category_file, banding_file).banding_config)
      [] op = "process_data" ->
            process_data(frame, category_file, banding_file)
      [] op = "transformer_indexing" ->
            LET out == transformer_apply_category_indexing(frame,
                            load_factor_config(category_file))
            IN  Returned(out.df)
      [] op = "transformer_banding" ->
            transformer_apply_continuous_banding(frame, load_continuous_bands(banding_file))

\* algorithms.pipeline.utils.apply_category_mapping on the raw batch
UtilsIndexing ==
    /\ pc = "RAW"
    /\ result' = Call("utils_indexing", df, category_config, banding_config)
    /\ pc' = "utils_indexing"
    /\ UNCHANGED <<df, banding_config, category_config, rating_table, join_columns,
                  previous, files, rating_engine,
                  transform_module, session, data_files>>

\* algorithms.pipeline.utils.apply_continuous_banding on the raw batch
UtilsBanding ==
    /\ pc = "RAW"
    /\ result' = Call("utils_banding", df, category_config, banding_config)
    /\ pc' = "utils_banding"
    /\ UNCHANGED <<df, banding_config, category_config, rating_table, join_columns,
                  previous, files, rating_engine,
                  transform_module, session, data_files>>

\* algorithms.pipeline.data_processor.process_data on the raw batch
ProcessData ==
    /\ pc = "RAW"
    /\ result' = Call("process_data", df, category_config, banding_config)
    /\ pc' = "process_data"
    /\ UNCHANGED <<df, banding_config, category_config, rating_table, join_columns,
                  previous, files, rating_engine,
                  transform_module, session, data_files>>

\* py_pricer.transformer.apply_category_indexing on the raw batch
TransformerIndexing ==
    /\ pc = "RAW"
    /\ result' = Call("transformer_indexing", df, category_config, banding_config)
    /\ pc' = "transformer_indexing"
    /\ UNCHANGED <<df, banding_config, category_config, rating_table, join_columns,
                  previous, files, rating_engine,
                  transform_module, session, data_files>>

\* py_pricer.transformer.apply_continuous_banding on the raw batch
TransformerBanding ==
    /\ pc = "RAW"
    /\ result' = Call("transformer_banding", df, category_config, banding_config)
    /\ pc' = "transformer_banding"
    /\ UNCHANGED <<df, banding_config, category_config, rating_table, join_columns,
                  previous, files, rating_engine,
                  transform_module, session, data_files>>

\* a second call that no longer finds the config files the first call read
RunAgainWithoutConfig ==
    /\ pc \in Operations
    /\ previous' = result
    /\ result' = Call(pc, df, MissingFile, MissingFile)
    /\ pc' = pc \o "_again"
    /\ UNCHANGED <<df, banding_config, category_config, rating_table, join_columns,
                  files, rating_engine,
                  transform_module, session, data_files>>

\* the same operation called a second time by the same caller, on the same batch and
\* with the same files; the caller keeps the first output.  The operations hold no
\* state of their own and polars frames are immutable: with_columns and clone return
\* new frames.
RunAgain ==
    /\ pc \in Operations
    /\ previous' = result
    /\ result' = Call(pc, df, category_config, banding_config)
    /\ pc' = pc \o "_again"
    /\ UNCHANGED <<df, banding_config, category_config, rating_table, join_columns,
                  files, rating_engine,
                  transform_module, session, data_files>>

NextStages ==
    \/ UtilsIndexing
    \/ UtilsBanding
    \/ ProcessData
    \/ TransformerIndexing
    \/ TransformerBanding
    \/ RunAgain

SpecStages == InitPipeline /\ [][NextStages]_vars

----------------------------------------------------------------------------
(* Properties of the transform operations as a whole *)

S_first == pc \in Operations
S_again == pc \in {op \o "_again" : op \in Operations}

S_returned == S_first /\ result.status = "returned"

\* C14: indexing and banding are additive: every record of the batch is in the output
\* with each of its fields present and holding its original value, whatever the
\* category and band configs are
C14_Additive ==
    S_returned =>
        /\ Len(result.df.rows) = Len(df.rows)
        /\ \A c \in Range(df.columns) :
              /\ HasColumn(result.df, c)
              /\ \A i \in DOMAIN df.rows : result.df.rows[i][c] = df.rows[i][c]

\* the config file is absent, unreadable or empty
S_unloadable(file) == file \in {MissingFile, GarbledFile, JsonFile(<<>>)}

\* C15: when the category config file or the band config file is absent, unreadable
\* or empty, the stage is skipped without raising: the records come back without that
\* stage's fields, and in process_data the other stage runs as it does by itself
C15_MissingConfigSkipsStage ==
    /\ (pc \in {"utils_indexing", "transformer_indexing"} /\ S_unloadable(category_config))
          => result = Returned(df)
    /\ (pc \in {"utils_banding", "transformer_banding"} /\ S_unloadable(banding_config))
          => result = Returned(df)
    /\ (pc = "process_data" /\ S_unloadable(category_config)) =>
          IF S_unloadable(banding_config) THEN result = Returned(df)
          ELSE result = utils_apply_continuous_banding(df, banding_config.data)
    /\ (pc = "process_data" /\ S_unloadable(banding_config)) =>
          IF S_unloadable(category_config) THEN result = Returned(df)
          ELSE result = utils_apply_category_mapping(df, category_config.data)

\* C15 witness: process_data has run on a batch of two with the category config file
\* garbled and the band config present: the records are banded and carry no index
C15_Witness ==
    /\ pc = "process_data"
    /\ category_config = GarbledFile
    /\ Len(df.rows) = 2
    /\ result.status = "returned"
    /\ result.df.columns = <<"IDpol", "Area", "VehAge", "VehAgeBand">>
    /\ result.df.rows[1]["VehAgeBand"] = Str("B1")

\* the derived fields of record i in what an operation gave: the fields that are not
\* fields of the batch, with their values
S_derived(out, i) ==
    [c \in Range(out.df.columns) \ Range(df.columns) |-> out.df.rows[i][c]]

\* processing record i alone and processing it inside the batch end the same way and
\* give the record the same derived fields
S_same_alone(i) ==
    LET alone == Call(pc, OnlyRow(df, i), category_config, banding_config)
    IN  /\ alone.status = result.status
        /\ result.status = "returned" => S_derived(alone, 1) = S_derived(result, i)

\* C16 as stated: the derived fields of a record depend only on that record and the
\* configuration: processed alone or inside any batch, also one in which another
\* record holds an unmapped, out-of-band or wrongly typed value, it gets the same
C16_RecordsIndependent ==
    S_first => \A i \in DOMAIN df.rows : S_same_alone(i)

\* no record of the batch holds a string in the banded field
S_well_typed == \A i \in DOMAIN df.rows : ~IsStr(df.rows[i]["VehAge"])

\* C16 amended: in a batch none of whose records holds a wrongly typed value in a
\* banded field, the derived fields of a record depend only on that record and the
\* configuration, also when another record holds an unmapped or out-of-band value
C16_RecordsIndependentWhenTyped ==
    (S_first /\ S_well_typed) => \A i \in DOMAIN df.rows : S_same_alone(i)

\* C16 witness: process_data has banded and indexed a batch of two whose second
\* record holds an unmapped area and an out-of-band age; the first record has the
\* band and the index it gets alone
C16_Witness ==
    /\ pc = "process_data"
    /\ Len(df.rows) = 2
    /\ df.rows[1]["VehAge"] = Num(0) /\ df.rows[1]["Area"] = Str("A")
    /\ df.rows[2]["VehAge"] = Num(2) /\ df.rows[2]["Area"] = Str("Z")
    /\ result.status = "returned"
    /\ S_derived(result, 1) = [VehAgeBand |-> Str("B1"), Area_Index |-> Num(0)]
    /\ S_same_alone(1)

----------------------------------------------------------------------------
(* Properties of a quote without a base value *)

\* the quotes of the batch, by position, whose Area has a row in the base-values table
Q_matched ==
    {i \in DOMAIN df.rows :
        \E j \in DOMAIN rating_table.rows : rating_table.rows[j]["Area"] = df.rows[i]["Area"]}

\* C17: in the quote-rating path a quote whose Area has no row in the base-values
\* table is left out of the rated result and the other quotes are still rated: the
\* batch is never aborted for it, and the result holds one rated quote per quote
\* whose Area the table knows
C17_JoinMissShrinksResult ==
    (pc = "batch_quotes" /\ rating_table # MissingFile) =>
        /\ result.status = "returned"
        /\ Len(result.quotes) = Cardinality(Q_matched)

----------------------------------------------------------------------------
(* Properties of record order *)

\* the IDpol numbers of the records of a frame, top to bottom; the records of the
\* input batch are numbered 1, 2, ... in input order
O_ids(frame) == [r \in DOMAIN frame.rows |-> frame.rows[r]["IDpol"][2]]

\* a sequence of numbers that never steps down
O_ascending(ids) == \A r1, r2 \in DOMAIN ids : r1 < r2 => ids[r1] <= ids[r2]

\* C18: record order is preserved end to end: the bander and the indexer return the
\* records in input order, and the records that survive a rating join (one join, a
\* further join, or the join of the rating stage) are in the output in the same
\* relative order as in the input
C18_OrderPreserved ==
    /\ pc \in {"BANDED", "INDEXED"} => O_ids(result.df) = O_ids(df)
    /\ (pc \in {"joined", "joined_twice", "RATED"} /\ result.status = "returned")
          => O_ascending(O_ids(result.df))

----------------------------------------------------------------------------
(* The initializer: py_pricer.initializer *)

\* what is at a path: nothing, something the user put there, or a copy of what the
\* repository archive holds (made executable, for the API templates)
Contents == {"absent", "user", "repo"}

API_TEMPLATE_FILES == <<"run_api.py", "test_api.py">>

\* os.path.exists(path)
Exists(fs, path) == fs[path] # "absent"

\* what a downloaded archive holds: the algorithms directory or not, and the API
\* templates it has; ok is FALSE when the download or the extraction failed
Archives ==
    [ok : BOOLEAN, algorithms : BOOLEAN, templates : SUBSET Range(API_TEMPLATE_FILES)]

\* a download that removes and replaces the target directory whatever force is
DownloadAlgorithmsAlwaysOverwrite(fs, force, archive) ==
    IF ~archive.ok THEN [status |-> "raised", error |-> "RuntimeError", files |-> fs]
    ELSE IF ~archive.algorithms
    THEN [status |-> "raised", error |-> "FileNotFoundError", files |-> fs]
    ELSE [status |-> "returned", value |-> "algorithms",
          files |-> [fs EXCEPT !["algorithms"] = "repo"]]

\* initializer.download_algorithms_from_github(force): what it returns or raises, and
\* the working directory it leaves
download_algorithms_from_github(fs, force, archive) ==
    IF ~archive.ok THEN [status |-> "raised", error |-> "RuntimeError", files |-> fs]
    ELSE IF ~archive.algorithms
    THEN [status |-> "raised", error |-> "FileNotFoundError", files |-> fs]
    ELSE IF Exists(fs, "algorithms") /\ ~force
    THEN [status |-> "returned", value |-> "None", files |-> fs]
    ELSE [status |-> "returned", value |-> "algorithms",
          files |-> [fs EXCEPT !["algorithms"] = "repo"]]

\* the loop of download_api_templates_from_github over API_TEMPLATE_FILES: an
\* existing file is skipped unless force, a file the archive lacks is skipped, and a
\* copy that fails is logged and leaves the file as it was
RECURSIVE CopyTemplates(_, _, _, _, _)
CopyTemplates(fs, force, archive, copies, k) ==
    IF k > Len(API_TEMPLATE_FILES) THEN fs
    ELSE LET filename == API_TEMPLATE_FILES[k]
             dst_path == "api/" \o filename
         IN  IF Exists(fs, dst_path) /\ ~force
             THEN CopyTemplates(fs, force, archive, copies, k + 1)
             ELSE IF filename \in archive.templates /\ filename \in copies
             THEN CopyTemplates([fs EXCEPT ![dst_path] = "repo"], force, archive,
                                copies, k + 1)
             ELSE CopyTemplates(fs, force, archive, copies, k + 1)

\* initializer.download_api_templates_from_github(force); copies is the set of
\* template files whose shutil.copy2 succeeds.  os.makedirs(api_dir, exist_ok=True)
\* creates the api directory when there is none.
download_api_templates_from_github(fs, force, archive, copies) ==
    IF ~archive.ok THEN [status |-> "raised", error |-> "RuntimeError", files |-> fs]
    ELSE LET made == IF Exists(fs, "api") THEN fs ELSE [fs EXCEPT !["api"] = "repo"]
         IN  [status |-> "returned",
              files |-> CopyTemplates(made, force, archive, copies, 1)]

\* initializer.initialize(force), which py_pricer.initialize(force) calls: the two
\* downloads fetch the archive separately
initialize(fs, force, archive1, archive2, copies) ==
    LET algorithms == download_algorithms_from_github(fs, force, archive1)
    IN  IF algorithms.status = "raised"
        THEN [status |-> "raised", error |-> "RuntimeError", files |-> algorithms.files]
        ELSE LET api == download_api_templates_from_github(algorithms.files, force,
                                                           archive2, copies)
                 success == ~(algorithms.value = "None" /\ ~force)
                            /\ api.status = "returned"
             IN  [status |-> "returned", value |-> success, files |-> api.files]

----------------------------------------------------------------------------
(* The initializer specification: a working directory in any state, initialised *)
(* any number of times with and without force, against any archive              *)

\* the working directories a user can have: files of the api directory exist only
\* inside an api directory
WorkingDirectories ==
    {fs \in [Paths -> {"absent", "user"}] :
        fs["api"] = "absent" =>
            (fs["api/run_api.py"] = "absent" /\ fs["api/test_api.py"] = "absent")}

InitInitializer ==
    /\ pc = "start"
    /\ result = NoResult
    /\ previous = NoResult
    /\ df = <<>>
    /\ banding_config = <<>>
    /\ category_config = <<>>
    /\ rating_table = <<>>
    /\ join_columns = <<>>
    /\ rating_engine = TRUE
    /\ transform_module = ExampleModule
    /\ session = EmptySession
    /\ data_files = NoDataFiles
    /\ files \in WorkingDirectories

\* py_pricer.initialize() / python -m py_pricer.initializer
Initialize ==
    /\ \E archive1 \in Archives, archive2 \in Archives,
          copies \in SUBSET Range(API_TEMPLATE_FILES) :
          LET out == initialize(files, FALSE, archive1, archive2, copies)
          IN  /\ files' = out.files
              /\ result' = IF out.status = "raised" THEN Raised(out.error)
                            ELSE [status |-> "returned", value |-> out.value]
    /\ pc' = "initialize"
    /\ UNCHANGED <<df, banding_config, category_config, rating_table, join_columns,
                  previous, rating_engine,
                  transform_module, session, data_files>>

\* py_pricer.initialize(force=True) / python -m py_pricer.initializer --force
InitializeForce ==
    /\ \E archive1 \in Archives, archive2 \in Archives,
          copies \in SUBSET Range(API_TEMPLATE_FILES) :
          LET out == initialize(files, TRUE, archive1, archive2, copies)
          IN  /\ files' = out.files
              /\ result' = IF out.status = "raised" THEN Raised(out.error)
                            ELSE [status |-> "returned", value |-> out.value]
    /\ pc' = "initialize_force"
    /\ UNCHANGED <<df, banding_config, category_config, rating_table, join_columns,
                  previous, rating_engine,
                  transform_module, session, data_files>>

NextInitializer == Initialize \/ InitializeForce

SpecInitializer == InitInitializer /\ [][NextInitializer]_vars

----------------------------------------------------------------------------
(* Properties of the initializer *)

\* the paths the claim protects
F_protected == {"algorithms", "api/run_api.py", "api/test_api.py"}

\* the working directory is initialised: every protected path exists
F_initialised == \A p \in F_protected : Exists(files, p)

\* C19: a call of initialize without force never modifies, replaces or removes an
\* existing algorithms directory or an existing api/run_api.py or api/test_api.py
\* (what exists is changed only by a call with force), and on an initialised
\* directory it leaves the file system exactly as it was
C19_NoForceNoOverwrite ==
    [][/\ \A p \in F_protected :
             (Exists(files, p) /\ files'[p] # files[p]) => pc' = "initialize_force"
       /\ (F_initialised /\ pc' = "initialize") => files' = files]_vars

\* C19 witness: after a call without force the user's own algorithms directory and
\* run_api.py are as they were, next to a test_api.py the call copied
C19_Witness ==
    /\ pc = "initialize"
    /\ files["algorithms"] = "user"
    /\ files["api/run_api.py"] = "user"
    /\ files["api/test_api.py"] = "repo"

----------------------------------------------------------------------------
(* The batch endpoint of the API: api/api.py and py_pricer/api.py *)

\* exceptions as the handlers see them
HTTPException(status_code, detail) ==
    [type |-> "HTTPException", status_code |-> status_code, detail |-> detail]
ValueError(message) == [type |-> "ValueError", message |-> message]
TypeError(message) == [type |-> "TypeError", message |-> message]

\* str(e): starlette's HTTPException prints "<status_code>: <detail>", the built-in
\* exceptions print their message
StrOf(e) ==
    IF e.type = "HTTPException" THEN ToString(e.status_code) \o ": " \o e.detail
    ELSE e.message

\* what the client receives for an HTTPException that leaves the handler
ErrorResponse(e) == [status_code |-> e.status_code, detail |-> e.detail]

\* what the client receives when the handler returns its results
OkResponse(results) == [status_code |-> 200, results |-> results]

\* "except Exception as e: raise HTTPException(status_code=500, detail=prefix + str(e))":
\* HTTPException is an Exception, so this clause catches the handler's own
\* HTTPExceptions too
ExceptException(e, prefix) == HTTPException(500, prefix \o StrOf(e))

\* api/api.py calculate_premiums_batch(request): quotes is the frame of
\* request.quotes, engine the module global rating_engine
api_calculate_premiums_batch(quotes, engine, category_index, base_values_file) ==
    IF ~engine
    THEN ErrorResponse(ExceptException(
            HTTPException(500, "Rating engine not available"),
            "Error calculating premiums: "))
    ELSE IF quotes.rows = <<>>
    THEN ErrorResponse(ExceptException(
            HTTPException(400, "No quotes provided"), "Error calculating premiums: "))
    ELSE LET results_data == process_batch_quotes(quotes, category_index, base_values_file)
         IN  IF results_data.status = "raised"
             THEN ErrorResponse(HTTPException(400,
                     StrOf(ValueError("Error calculating premiums: ..."))))
             ELSE OkResponse([i \in DOMAIN quotes.rows |->
                     [premium |-> results_data.quotes[i].premium,
                      quote |-> quotes.rows[i],
                      factors |-> results_data.quotes[i].factors]])

\* py_pricer/api.py calculate_premiums_batch(request); engine is FALSE when
\* import_rating_engine gave (None, None), and calling None raises TypeError
package_calculate_premiums_batch(quotes, engine, category_index, base_values_file) ==
    LET prefix == "Error calculating premiums: " IN
    IF quotes.rows = <<>>
    THEN ErrorResponse(ExceptException(HTTPException(400, "No quotes provided"), prefix))
    ELSE IF ~engine
    THEN ErrorResponse(ExceptException(
            TypeError("'NoneType' object is not callable"), prefix))
    ELSE LET indexed == transformer_apply_category_indexing(quotes, category_index).df
             based == apply_base_rating(indexed, base_values_file)
         IN  IF ~HasColumn(based, "BaseValue")
             THEN ErrorResponse(ExceptException(
                     HTTPException(500, "Failed to calculate base premiums"), prefix))
             ELSE IF \E i \in DOMAIN based.rows : ~FloatOf(based.rows[i]["BaseValue"]).ok
             THEN ErrorResponse(ExceptException(
                     ValueError("could not convert string to float"), prefix))
             ELSE OkResponse([i \in DOMAIN based.rows |->
                     [premium |-> FloatOf(based.rows[i]["BaseValue"]).value,
                      quote |-> quotes.rows[i],
                      factors |-> [base_value |-> FloatOf(based.rows[i]["BaseValue"]).value]]])

----------------------------------------------------------------------------
(* The API specification: a batch request of zero or more quotes, posted to    *)
(* either application, with the rating engine imported or not                  *)

InitApi ==
    /\ pc = "start"
    /\ result = NoResult
    /\ previous = NoResult
    /\ files = InitialisedFiles
    /\ banding_config = <<>>
    /\ join_columns = <<>>
    /\ rating_engine \in BOOLEAN
    /\ transform_module = ExampleModule
    /\ session = EmptySession
    /\ data_files = NoDataFiles
    /\ category_config \in {<<>>, << <<"Area", [A |-> 0]>> >>}
    /\ rating_table \in BaseTables \cup {MissingFile}
    /\ \E n \in 0..MaxQuotes :
          \E areas \in [1..n -> QuoteAreas], groups \in [1..n -> QuotePowerGroups],
             has_group \in BOOLEAN :
             df = QuoteFrame(areas, groups, has_group, FALSE)

\* POST /calculate_premiums_batch to the application of api/api.py
ApiBatch ==
    /\ pc = "start"
    /\ result' = api_calculate_premiums_batch(df, rating_engine, category_config,
                                              rating_table)
    /\ pc' = "api_batch"
    /\ UNCHANGED <<df, banding_config, category_config, rating_table, join_columns,
                  previous, files, rating_engine,
                  transform_module, session, data_files>>

\* POST /calculate_premiums_batch to the application of py_pricer/api.py
PackageApiBatch ==
    /\ pc = "start"
    /\ result' = package_calculate_premiums_batch(df, rating_engine, category_config,
                                                  rating_table)
    /\ pc' = "package_api_batch"
    /\ UNCHANGED <<df, banding_config, category_config, rating_table, join_columns,
                  previous, files, rating_engine,
                  transform_module, session, data_files>>

NextApi == ApiBatch \/ PackageApiBatch

SpecApi == InitApi /\ [][NextApi]_vars

----------------------------------------------------------------------------
(* Properties of the batch endpoint *)

\* C20: with the rating engine imported, the batch endpoint answers a request whose
\* quotes list is empty with status 400 and detail "No quotes provided": the 400
\* raised for the empty batch reaches the client unchanged
C20_EmptyBatchIs400 ==
    (pc \in {"api_batch", "package_api_batch"} /\ rating_engine /\ df.rows = <<>>) =>
        result = [status_code |-> 400, detail |-> "No quotes provided"]

\* the base value base-values.csv gives for a quote's Area, as a set: empty when the
\* file is missing or does not know the area
A_base_of(quote) ==
    IF rating_table = MissingFile THEN {}
    ELSE {rating_table.rows[k]["Base"][2] :
            k \in {j \in DOMAIN rating_table.rows :
                     rating_table.rows[j]["Area"] = quote["Area"]}}

\* what the single-quote path returns for quote i of the batch on its own
A_alone(i) == process_single_quote(OnlyRow(df, i), category_config, rating_table)

\* C21: for every non-empty batch the batch endpoint answers normally, the response
\* has exactly one entry per quote, in input order; entry i carries quote i, the base
\* value of quote i's own area, and the premium and factors the engine computes for
\* quote i on its own
C21_EntryPerQuoteInOrder ==
    (pc = "api_batch" /\ df.rows # <<>> /\ result.status_code = 200) =>
        /\ Len(result.results) = Len(df.rows)
        /\ \A i \in DOMAIN df.rows :
              /\ result.results[i].quote = df.rows[i]
              /\ result.results[i].factors["base_value"] \in A_base_of(df.rows[i])
              /\ A_alone(i).status = "returned"
              /\ result.results[i].premium = A_alone(i).quotes[1].premium
              /\ result.results[i].factors = A_alone(i).quotes[1].factors

\* C21 witness: a batch of two quotes of different areas answered normally, the two
\* entries holding different premiums
C21_Witness ==
    /\ pc = "api_batch"
    /\ result.status_code = 200
    /\ Len(df.rows) = 2
    /\ df.rows[1]["Area"] # df.rows[2]["Area"]
    /\ Len(result.results) = 2
    /\ result.results[1].premium # result.results[2].premium
    /\ result.results[1].quote = df.rows[1]

----------------------------------------------------------------------------
(* The premium specification: calculate_premium called on a frame with or      *)
(* without a BaseValue and a PowerGroup column                                 *)

PremiumPowerGroups == {Str("Low"), Str("Medium"), Str("High"), Str("Sport")}

\* the dtypes a BaseValue column arrives with: Float64 when the caller computed it,
\* String when apply_base_rating wrote it by replacing the cells of Area
BaseValueDtypes == {"absent", "Float64", "String"}

\* a frame of calculate_premium: an IDpol, then a BaseValue and a PowerGroup column
\* when it has them
PremiumFrame(bases, groups, base_dtype, has_group) ==
    LET columns == <<"IDpol">>
                   \o (IF base_dtype = "absent" THEN <<>> ELSE <<"BaseValue">>)
                   \o (IF has_group THEN <<"PowerGroup">> ELSE <<>>)
    IN  [columns |-> columns,
         rows |-> [i \in DOMAIN bases |->
                     [c \in Range(columns) |->
                        IF c = "IDpol" THEN Num(i)
                        ELSE IF c = "PowerGroup" THEN groups[i]
                        ELSE IF base_dtype = "Float64" THEN Num(bases[i])
                        ELSE NumberText(bases[i])]]]

InitPremium ==
    /\ pc = "start"
    /\ result = NoResult
    /\ previous = NoResult
    /\ files = InitialisedFiles
    /\ rating_engine = TRUE
    /\ transform_module = ExampleModule
    /\ session = EmptySession
    /\ data_files = NoDataFiles
    /\ banding_config = <<>>
    /\ category_config = <<>>
    /\ join_columns = <<>>
    /\ rating_table = MissingFile
    /\ \E n \in 1..MaxQuotes :
          \E bases \in [1..n -> BaseAmounts], groups \in [1..n -> PremiumPowerGroups],
             base_dtype \in BaseValueDtypes, has_group \in BOOLEAN :
             df = PremiumFrame(bases, groups, base_dtype, has_group)

\* rating_engine.calculate_premium(df): every path of it returns, its whole body
\* being inside try/except
CalculatePremium ==
    /\ pc = "start"
    /\ result' = Returned(calculate_premium(df))
    /\ pc' = "premium"
    /\ UNCHANGED <<df, banding_config, category_config, rating_table, join_columns,
                  previous, files, rating_engine,
                  transform_module, session, data_files>>

NextPremium == CalculatePremium

SpecPremium == InitPremium /\ [][NextPremium]_vars

----------------------------------------------------------------------------
(* Properties of calculate_premium *)

\* the factor of a PowerGroup value: 0.8, 1.0 or 1.2 for Low, Medium or High, and
\* 1.0 for any other value
P_factor(pg) ==
    IF pg = Str("Low") THEN 800
    ELSE IF pg = Str("High") THEN 1200
    ELSE 1000

\* the frame has a BaseValue column of numbers
P_numeric_base ==
    /\ HasColumn(df, "BaseValue")
    /\ \A i \in DOMAIN df.rows : IsNum(df.rows[i]["BaseValue"])

\* C22: calculate_premium always returns.  Without a BaseValue column it returns the
\* input unchanged, with no Premium column.  With a numeric BaseValue column every
\* record gets Premium = BaseValue * f, f being the factor of its PowerGroup, or
\* Premium = BaseValue when there is no PowerGroup column, and BaseValue is unchanged.
C22_PremiumIsBaseTimesFactor ==
    (pc = "premium") =>
        /\ result.status = "returned"
        /\ (~HasColumn(df, "BaseValue") => result.df = df)
        /\ (P_numeric_base =>
              /\ HasColumn(result.df, "Premium")
              /\ Len(result.df.rows) = Len(df.rows)
              /\ \A i \in DOMAIN df.rows :
                    /\ result.df.rows[i]["BaseValue"] = df.rows[i]["BaseValue"]
                    /\ result.df.rows[i]["Premium"] =
                          IF HasColumn(df, "PowerGroup")
                          THEN Num(Times(df.rows[i]["BaseValue"][2],
                                         P_factor(df.rows[i]["PowerGroup"])))
                          ELSE df.rows[i]["BaseValue"])

----------------------------------------------------------------------------
(* py_pricer.transformer.apply_transformations and the user's transform.py *)

\* what may be at algorithms/transformations/transform.py: nothing; a file whose
\* execution raises; a module without apply_transformations; the repository's module;
\* a module whose apply_transformations raises; one whose apply_transformations
\* returns None (a body without a return statement)
TransformModules ==
    {[exists |-> FALSE],
     [exists |-> TRUE, loads |-> FALSE],
     [exists |-> TRUE, loads |-> TRUE, functions |-> {"age_band"}, behaviour |-> "none"],
     ExampleModule,
     [exists |-> TRUE, loads |-> TRUE, functions |-> {"apply_transformations"},
      behaviour |-> "raises"],
     [exists |-> TRUE, loads |-> TRUE, functions |-> {"apply_transformations"},
      behaviour |-> "returns_none"]}

\* load_transformation_module(): the module, or None when the file does not exist or
\* its execution raises
load_transformation_module(file) ==
    IF ~file.exists THEN None
    ELSE IF ~file.loads THEN None
    ELSE file

\* hasattr(module, name)
hasattr(module, name) == name \in module.functions

\* a cell compared with an integer by "<": null for a null cell
LessThan(cell, n) == IsNum(cell) /\ cell[2] < n

\* transform.py age_band(df): DrivAgeBand from DrivAge; any exception returns df
age_band(frame) ==
    IF ~HasColumn(frame, "DrivAge") THEN frame
    ELSE IF \E i \in DOMAIN frame.rows : IsStr(frame.rows[i]["DrivAge"]) THEN frame
    ELSE WithColumn(frame, "DrivAgeBand",
            [i \in DOMAIN frame.rows |->
                LET cell == frame.rows[i]["DrivAge"]
                IN  IF LessThan(cell, 25) THEN Str("Under 25")
                    ELSE IF LessThan(cell, 40) THEN Str("25-39")
                    ELSE IF LessThan(cell, 60) THEN Str("40-59")
                    ELSE Str("60+")])

\* transform.py power_group(df): PowerGroup from VehPower; any exception returns df
power_group(frame) ==
    IF ~HasColumn(frame, "VehPower") THEN frame
    ELSE IF \E i \in DOMAIN frame.rows : IsStr(frame.rows[i]["VehPower"]) THEN frame
    ELSE WithColumn(frame, "PowerGroup",
            [i \in DOMAIN frame.rows |->
                LET cell == frame.rows[i]["VehPower"]
                IN  IF LessThan(cell, 5) THEN Str("Low")
                    ELSE IF LessThan(cell, 8) THEN Str("Medium")
                    ELSE Str("High")])

\* transform_module.apply_transformations(df) of a loaded module that defines it
user_apply_transformations(module, frame) ==
    IF module.behaviour = "example" THEN Returned(power_group(age_band(frame)))
    ELSE IF module.behaviour = "returns_none" THEN Returned(None)
    ELSE Raised("Exception")

\* the second try block of apply_transformations: the default continuous banding, and
\* None when it raises
default_transformations(frame, banding_file) ==
    LET banded == transformer_apply_continuous_banding(frame,
                                                       load_continuous_bands(banding_file))
    IN  IF banded.status = "raised" THEN Returned(None) ELSE banded

\* an apply_transformations that lets the exception of the user's function escape
ApplyTransformationsNoFallback(frame, module_file, banding_file) ==
    LET module == load_transformation_module(module_file)
    IN  IF module # None /\ hasattr(module, "apply_transformations")
        THEN user_apply_transformations(module, frame)
        ELSE default_transformations(frame, banding_file)

\* py_pricer.transformer.apply_transformations(df)
apply_transformations(frame, module_file, banding_file) ==
    LET module == load_transformation_module(module_file)
    IN  IF module # None /\ hasattr(module, "apply_transformations")
        THEN LET transformed == user_apply_transformations(module, frame)
             IN  IF transformed.status = "returned" THEN transformed
                 ELSE default_transformations(frame, banding_file)
        ELSE default_transformations(frame, banding_file)

----------------------------------------------------------------------------
(* The transformation specification: a batch with a VehAge, with or without a   *)
(* VehPower and a DrivAge, a banding file and a transform.py of every kind      *)

TransformPowers == {Num(4), Num(9)}
TransformDrivAges == {Num(30)}

TransformBatches ==
    {LET columns == <<"IDpol", "VehAge">>
                    \o (IF has_power THEN <<"VehPower">> ELSE <<>>)
                    \o (IF has_age THEN <<"DrivAge">> ELSE <<>>)
     IN  [columns |-> columns,
          rows |-> [i \in DOMAIN cells[1] |->
                      [c \in Range(columns) |->
                         IF c = "IDpol" THEN Num(i)
                         ELSE IF c = "VehAge" THEN cells[1][i]
                         ELSE IF c = "VehPower" THEN cells[2][i]
                         ELSE cells[3][i]]]] :
        cells \in UNION {{cc \in [1..n -> PipelineAges] \X [1..n -> TransformPowers]
                                 \X [1..n -> TransformDrivAges] : OneDtype(cc[1])} :
                         n \in 1..MaxRows},
        has_power \in BOOLEAN, has_age \in BOOLEAN}

InitTransform ==
    /\ pc = "start"
    /\ result = NoResult
    /\ previous = NoResult
    /\ files = InitialisedFiles
    /\ rating_engine = TRUE
    /\ session = EmptySession
    /\ data_files = NoDataFiles
    /\ category_config = <<>>
    /\ join_columns = <<>>
    /\ rating_table = MissingFile
    /\ df \in TransformBatches
    /\ banding_config \in BandingFiles
    /\ transform_module \in TransformModules

\* transformer.apply_transformations(df)
ApplyTransformations ==
    /\ pc = "start"
    /\ result' = apply_transformations(df, transform_module, banding_config)
    /\ pc' = "transformed"
    /\ UNCHANGED <<df, banding_config, category_config, rating_table, join_columns,
                  previous, files, rating_engine, transform_module, session, data_files>>

NextTransform == ApplyTransformations

SpecTransform == InitTransform /\ [][NextTransform]_vars

----------------------------------------------------------------------------
(* Properties of apply_transformations *)

\* transform.py loads, defines apply_transformations, and that function returns
T_user_returns ==
    /\ transform_module.exists
    /\ transform_module.loads
    /\ "apply_transformations" \in transform_module.functions
    /\ transform_module.behaviour \in {"example", "returns_none"}

\* the columns the default banding writes under the banding files of the model
T_band_columns == {"VehAgeBand", "Area"}

\* the default continuous banding of the original input frame
T_default == transformer_apply_continuous_banding(df, load_continuous_bands(banding_config))

\* the call returned the result of the repository's transform.py on the input: the
\* input's columns and cells, a PowerGroup for a VehPower, a DrivAgeBand for a DrivAge,
\* and no band column
T_example_result ==
    /\ result.df # None
    /\ Range(result.df.columns) =
          Range(df.columns)
             \cup (IF HasColumn(df, "VehPower") THEN {"PowerGroup"} ELSE {})
             \cup (IF HasColumn(df, "DrivAge") THEN {"DrivAgeBand"} ELSE {})
    /\ Range(result.df.columns) \cap T_band_columns = {}
    /\ \A i \in DOMAIN df.rows :
          /\ \A c \in Range(df.columns) : result.df.rows[i][c] = df.rows[i][c]
          /\ HasColumn(df, "VehPower") =>
                result.df.rows[i]["PowerGroup"] =
                   (IF df.rows[i]["VehPower"] = Num(4) THEN Str("Low") ELSE Str("High"))
          /\ HasColumn(df, "DrivAge") => result.df.rows[i]["DrivAgeBand"] = Str("25-39")

\* the call never raises; the user's result is returned without the default banding
\* when the user's function returns; otherwise the default banding of the original
\* input is returned
T_fallback ==
    /\ result.status = "returned"
    /\ (T_user_returns /\ transform_module.behaviour = "example") => T_example_result
    /\ (T_user_returns /\ transform_module.behaviour = "returns_none") => result.df = None
    /\ ~T_user_returns => result = T_default

\* the default transformations themselves failed
T_default_failed == ~T_user_returns /\ T_default.status = "raised"

\* C23 as stated: apply_transformations never raises, returns the user's result when
\* the user's function returns and the default banding of the original input
\* otherwise, and returns None only if the default transformations themselves fail
C23_NoneOnlyIfDefaultFails ==
    (pc = "transformed") =>
        /\ T_fallback
        /\ (result.df = None => T_default_failed)

\* C23 amended: apply_transformations never raises, returns the user's result when the
\* user's function returns and the default banding of the original input otherwise,
\* and returns None only if the user's function itself returned None or the default
\* transformations themselves fail
C23_NoneOnlyIfUserNoneOrDefaultFails ==
    (pc = "transformed") =>
        /\ T_fallback
        /\ (result.df = None =>
               \/ T_default_failed
               \/ (T_user_returns /\ transform_module.behaviour = "returns_none"))

\* C23 witness: the user's function raised and the call returned the original batch
\* with the band column of the default banding
C23_Witness ==
    /\ pc = "transformed"
    /\ transform_module.exists
    /\ transform_module.loads
    /\ transform_module.behaviour = "raises"
    /\ result.status = "returned"
    /\ ~HasColumn(df, "VehAgeBand")
    /\ HasColumn(result.df, "VehAgeBand")
    /\ result.df.rows[1]["VehAgeBand"] = Str("B1")

----------------------------------------------------------------------------
(* The two stages of process_data in both orders *)

\* a process_data that leaves the banding step out
IndexWithoutBand(frame, category_config_, banding_config_) ==
    utils_apply_category_mapping(frame, category_config_)

\* apply_category_mapping, then apply_continuous_banding of the indexed frame: the
\* two steps of process_data taken in the other order
IndexThenBand(frame, category_config_, banding_config_) ==
    LET indexed == utils_apply_category_mapping(frame, category_config_)
    IN  utils_apply_continuous_banding(indexed.df, banding_config_)

\* category configs: of the input field Area, of the band column VehAgeBand, of both
CommuteCategoryConfigs ==
    {<<>>,
     << <<"Area", [A |-> 0]>> >>,
     << <<"VehAgeBand", [B1 |-> 0, B2 |-> 1]>> >>,
     << <<"Area", [A |-> 0]>>, <<"VehAgeBand", [B1 |-> 0, B2 |-> 1]>> >>}

\* band configs: of the input field VehAge, under the default output name, under the
\* name of an input field and under the name of an index column; and of the index
\* column Area_Index
CommuteBandingConfigs ==
    {<<>>,
     << <<"VehAge", [bands |-> PipelineBands]>> >>,
     << <<"VehAge", [bands |-> PipelineBands, column_name |-> "Area"]>> >>,
     << <<"VehAge", [bands |-> PipelineBands, column_name |-> "Area_Index"]>> >>,
     << <<"Area_Index", [bands |-> PipelineBands]>> >>,
     << <<"VehAge", [bands |-> PipelineBands]>>,
        <<"Area_Index", [bands |-> PipelineBands]>> >>}

InitCommute ==
    /\ pc = "start"
    /\ result = NoResult
    /\ previous = NoResult
    /\ files = InitialisedFiles
    /\ rating_engine = TRUE
    /\ transform_module = ExampleModule
    /\ session = EmptySession
    /\ data_files = NoDataFiles
    /\ join_columns = <<>>
    /\ rating_table = MissingFile
    /\ df \in PipelineBatches
    /\ category_config \in CommuteCategoryConfigs
    /\ banding_config \in CommuteBandingConfigs

\* the order of process_data: banding, then category mapping
BandIndex ==
    /\ pc = "start"
    /\ result' = BandThenIndex(df, category_config, banding_config)
    /\ pc' = "band_index"
    /\ UNCHANGED <<df, banding_config, category_config, rating_table, join_columns,
                  previous, files, rating_engine, transform_module, session, data_files>>

\* the other order on the same batch and configs, the first output being kept
IndexBand ==
    /\ pc = "band_index"
    /\ previous' = result
    /\ result' = IndexThenBand(df, category_config, banding_config)
    /\ pc' = "index_band"
    /\ UNCHANGED <<df, banding_config, category_config, rating_table, join_columns,
                  files, rating_engine, transform_module, session, data_files>>

NextCommute == BandIndex \/ IndexBand

SpecCommute == InitCommute /\ [][NextCommute]_vars

----------------------------------------------------------------------------
(* Properties of the order of the two stages *)

\* both orders raised, or both returned the same fields with the same values for
\* every record
K_same_output ==
    IF previous.status = "raised" \/ result.status = "raised"
    THEN previous.status = result.status
    ELSE /\ Range(previous.df.columns) = Range(result.df.columns)
         /\ previous.df.rows = result.df.rows

\* the fields each stage reads and the columns it writes
K_band_fields == {banding_config[k][1] : k \in DOMAIN banding_config}
K_band_outputs ==
    {Get(banding_config[k][2], "column_name", banding_config[k][1] \o "Band") :
        k \in DOMAIN banding_config}
K_category_fields == {category_config[k][1] : k \in DOMAIN category_config}
K_index_outputs == {c \o "_Index" : c \in K_category_fields}

\* neither stage reads or overwrites a column the other one writes
K_separate ==
    /\ K_band_outputs \cap K_category_fields = {}
    /\ K_band_outputs \cap K_index_outputs = {}
    /\ K_index_outputs \cap K_band_fields = {}

\* C24 as stated: banding then category mapping gives every record the same output as
\* category mapping then banding, for every band config and category config
C24_StagesCommute ==
    (pc = "index_band") => K_same_output

\* C24 amended: the two orders give every record the same output provided no band
\* output column is a field of the category config or one of its index columns, and no
\* index column is a field of the band config
C24_StagesCommuteWhenSeparate ==
    (pc = "index_band" /\ K_separate) => K_same_output

\* C24 witness: both stages have written their column for a batch, in both orders,
\* with the same result
C24_Witness ==
    /\ pc = "index_band"
    /\ K_separate
    /\ result.status = "returned"
    /\ HasColumn(result.df, "VehAgeBand")
    /\ HasColumn(result.df, "Area_Index")
    /\ result.df.rows[1]["VehAgeBand"] = Str("B1")
    /\ result.df.rows[1]["Area_Index"] = Num(0)
    /\ previous.df.rows = result.df.rows

----------------------------------------------------------------------------
(* The two banders compared *)

\* what each bander returns for the batch and band config of the state
E_utils == utils_apply_continuous_banding(df, banding_config)
E_transformer == transformer_apply_continuous_banding(df, banding_config)

\* how a written cell classifies the value: the band's label, or no match for the
\* no-match value of either bander (null, "Unknown")
E_class(cell) == IF cell \in {Null, Str("Unknown")} THEN Str("no match") ELSE cell

\* C25: for every band config with a non-empty band list and every value (inside a
\* band, outside all bands, or null), the two banders write the same output column and
\* classify the value the same way: the same band label, or no match in both
C25_BandersAgree ==
    (B_banded /\ B_present /\ B_bands # <<>> /\ ~IsStr(B_cell)) =>
        /\ result = (IF pc = "utils_banded" THEN E_utils ELSE E_transformer)
        /\ E_utils.status = "returned"
        /\ E_transformer.status = "returned"
        /\ Range(E_utils.df.columns) = Range(E_transformer.df.columns)
        /\ HasColumn(E_utils.df, B_output_field)
        /\ E_class(E_utils.df.rows[1][B_output_field]) =
              E_class(E_transformer.df.rows[1][B_output_field])

----------------------------------------------------------------------------
(* The Streamlit application: streamlit/app.py and the raw data tab *)

\* load_batch_data() and load_individual_data(): the frame the files of the data
\* directory hold, or None when there is no file or loading raises
load_directory_data(file) == IF file = MissingFile THEN None ELSE file

\* st.session_state as the script initialises it; the radio widget starts on the
\* option of data_source
NewSession ==
    [data_source |-> "Batch", raw_df |-> None, transformed_df |-> None,
     rated_df |-> None, radio |-> "Batch"]

\* a callback that sets the new source and keeps the data of the session
ChangeDataSourceKeepingData(session_, new_source) ==
    [session_ EXCEPT !.data_source = new_source]

\* change_data_source(new_source), up to its st.rerun()
change_data_source(session_, new_source) ==
    [session_ EXCEPT !.data_source = new_source, !.raw_df = None,
                     !.transformed_df = None, !.rated_df = None]

\* the script from its first line to st.tabs: the session it leaves, and whether an
\* exception of process_data or rate_policies ended the run there
run_script(session_, data, category_file, banding_file, table, order) ==
    LET s0 == IF "data_source" \notin DOMAIN session_ THEN NewSession ELSE session_
    IN  IF s0.raw_df # None THEN [session |-> s0, raised |-> FALSE]
        ELSE LET raw == load_directory_data(data[s0.data_source])
                 s1 == [s0 EXCEPT !.raw_df = raw]
             IN  IF raw = None THEN [session |-> s1, raised |-> FALSE]
                 ELSE LET transformed == process_data(raw, category_file, banding_file)
                      IN  IF transformed.status = "raised"
                          THEN [session |-> s1, raised |-> TRUE]
                          ELSE LET s2 == [s1 EXCEPT !.transformed_df = transformed.df]
                                   rated == rate_policies(transformed.df, table,
                                                          <<"Area">>, order)
                               IN  IF transformed.df = None
                                   THEN [session |-> s2, raised |-> FALSE]
                                   ELSE IF rated.status = "raised"
                                   THEN [session |-> s2, raised |-> TRUE]
                                   ELSE [session |-> [s2 EXCEPT !.rated_df = rated.df],
                                         raised |-> FALSE]

\* what the four tabs are given to display
Displayed(session_) ==
    [status |-> "displayed", data_source |-> session_.data_source,
     raw_df |-> session_.raw_df, transformed_df |-> session_.transformed_df,
     rated_df |-> session_.rated_df]

----------------------------------------------------------------------------
(* The session specification: a data directory with or without files for each  *)
(* source, config files, a rating table that may be missing and restored, and a *)
(* user who selects a data source or reruns the script                          *)

\* the batch file: two records, the second with a number or with text for VehAge
SessionBatchFiles ==
    {MissingFile} \cup
    {[columns |-> <<"IDpol", "Area", "VehAge">>,
      rows |-> << [IDpol |-> Num(1), Area |-> Str("A"), VehAge |-> age],
                  [IDpol |-> Num(2), Area |-> Str("Z"), VehAge |-> age] >>] :
        age \in {Num(0), Str("old")}}

\* the individual quotes: one record
IndividualFile ==
    [columns |-> <<"IDpol", "Area", "VehAge">>,
     rows |-> << [IDpol |-> Num(3), Area |-> Str("A"), VehAge |-> Num(2)] >>]

SessionIndividualFiles == {MissingFile, IndividualFile}

SessionCategoryFiles == {MissingFile, JsonFile(<< <<"Area", [A |-> 0]>> >>)}
SessionBandingFiles == {MissingFile, JsonFile(<< <<"VehAge", [bands |-> PipelineBands]>> >>)}

\* the rating table of the application, when its file is there
SessionTable ==
    [columns |-> <<"Area", "Factor">>,
     rows |-> << [Area |-> Str("A"), Factor |-> Num(1)],
                 [Area |-> Str("Z"), Factor |-> Num(2)] >>]

InitSession ==
    /\ pc = "start"
    /\ result = NoResult
    /\ previous = NoResult
    /\ files = InitialisedFiles
    /\ rating_engine = TRUE
    /\ transform_module = ExampleModule
    /\ session = EmptySession
    /\ df = <<>>
    /\ join_columns = <<"Area">>
    /\ \E batch \in SessionBatchFiles, individual \in SessionIndividualFiles :
          data_files = [s \in DataSources |-> IF s = "Batch" THEN batch ELSE individual]
    /\ category_config \in SessionCategoryFiles
    /\ banding_config \in SessionBandingFiles
    /\ rating_table \in {MissingFile, SessionTable}

\* a run of the script up to st.tabs: started by the first request, by st.rerun() or
\* by the user
RunScript ==
    /\ pc \in {"start", "changed", "rerun"}
    /\ \E order \in RowOrders :
          LET out == run_script(session, data_files, category_config, banding_config,
                                rating_table, order)
          IN  /\ session' = out.session
              /\ pc' = IF out.raised THEN "exception" ELSE "tabs"
              /\ result' = IF out.raised THEN Raised("Exception") ELSE result
    /\ UNCHANGED <<df, banding_config, category_config, rating_table, join_columns,
                  previous, files, rating_engine, transform_module, data_files>>

\* the raw data tab finds the radio on another source than the session's: it calls
\* change_data_source, whose st.rerun() ends the run
ChangeDataSource ==
    /\ pc = "tabs"
    /\ session.radio # session.data_source
    /\ session' = change_data_source(session, session.radio)
    /\ pc' = "changed"
    /\ UNCHANGED <<df, banding_config, category_config, rating_table, join_columns,
                  result, previous, files, rating_engine, transform_module, data_files>>

\* the four tabs display the session's data and the run ends
ShowTabs ==
    /\ pc = "tabs"
    /\ session.radio = session.data_source
    /\ result' = Displayed(session)
    /\ pc' = "idle"
    /\ UNCHANGED <<df, banding_config, category_config, rating_table, join_columns,
                  previous, files, rating_engine, transform_module, session, data_files>>

\* the user selects the other option of the radio, which starts a run
SelectDataSource ==
    /\ pc = "idle"
    /\ \E new_source \in DataSources \ {session.radio} :
          session' = [session EXCEPT !.radio = new_source]
    /\ pc' = "rerun"
    /\ UNCHANGED <<df, banding_config, category_config, rating_table, join_columns,
                  result, previous, files, rating_engine, transform_module, data_files>>

\* the user reruns the script, after a completed run or after an exception
Rerun ==
    /\ pc \in {"idle", "exception"}
    /\ pc' = "rerun"
    /\ UNCHANGED <<df, banding_config, category_config, rating_table, join_columns,
                  result, previous, files, rating_engine, transform_module, session,
                  data_files>>

\* the missing rating table is put back in place
RestoreTable ==
    /\ rating_table = MissingFile
    /\ rating_table' = SessionTable
    /\ UNCHANGED <<df, banding_config, category_config, join_columns, result,
                  previous, files, rating_engine, transform_module, session,
                  data_files, pc>>

\* the banding config is taken away, as after it made process_data fail
RemoveBandingConfig ==
    /\ banding_config # MissingFile
    /\ banding_config' = MissingFile
    /\ UNCHANGED <<df, category_config, rating_table, join_columns, result,
                  previous, files, rating_engine, transform_module, session,
                  data_files, pc>>

\* the missing file of a data source is put in place
AddDataFile ==
    /\ \E s \in DataSources :
          /\ data_files[s] = MissingFile
          /\ data_files' = [data_files EXCEPT
                               ![s] = IF s = "Batch"
                                      THEN CHOOSE f \in SessionBatchFiles :
                                              /\ f # MissingFile
                                              /\ f.rows[1]["VehAge"] = Num(0)
                                      ELSE IndividualFile]
    /\ UNCHANGED <<df, banding_config, category_config, rating_table, join_columns,
                  result, previous, files, rating_engine, transform_module, session, pc>>

NextSession ==
    \/ RunScript
    \/ ChangeDataSource
    \/ ShowTabs
    \/ SelectDataSource
    \/ Rerun
    \/ RestoreTable
    \/ RemoveBandingConfig
    \/ AddDataFile

SpecSession == InitSession /\ [][NextSession]_vars

\* the session with its scheduling: a started run goes on to its end, the user keeps
\* rerunning the script, and a missing rating table is restored
SpecSessionFair ==
    /\ SpecSession
    /\ WF_vars(RunScript)
    /\ WF_vars(ChangeDataSource)
    /\ WF_vars(ShowTabs)
    /\ WF_vars(Rerun)
    /\ WF_vars(RestoreTable)

----------------------------------------------------------------------------
(* Properties of the Streamlit session *)

\* the policy numbers of a frame, and of the file of a data source
G_ids(frame) == {frame.rows[i]["IDpol"] : i \in DOMAIN frame.rows}
G_ids_of(source) ==
    IF data_files[source] = MissingFile THEN {} ELSE G_ids(data_files[source])

\* the three frames of a record of session data are there only on top of each other,
\* and each holds records of the file of the record's data source only
G_consistent(held) ==
    /\ held.rated_df # None => held.transformed_df # None
    /\ held.transformed_df # None => held.raw_df # None
    /\ held.raw_df # None => held.raw_df = data_files[held.data_source]
    /\ held.transformed_df # None =>
          G_ids(held.transformed_df) = G_ids_of(held.data_source)
    /\ held.rated_df # None => G_ids(held.rated_df) \subseteq G_ids_of(held.data_source)

\* C26: wherever the tabs are rendered, rated_df is there only if transformed_df is,
\* transformed_df only if raw_df is, and all three come from the session's
\* data_source; what the tabs displayed is such data too; and change_data_source
\* leaves the new source with all three cleared for the next run
C26_SessionConsistent ==
    /\ pc = "tabs" => G_consistent(session)
    /\ result.status = "displayed" => G_consistent(result)
    /\ pc = "changed" =>
          /\ session.data_source = session.radio
          /\ session.raw_df = None
          /\ session.transformed_df = None
          /\ session.rated_df = None

\* C26 witness: the tabs are about to render rated data of the individual quotes,
\* after having displayed rated data of the batch
C26_Witness ==
    /\ pc = "tabs"
    /\ session.data_source = "Individual"
    /\ session.radio = "Individual"
    /\ session.rated_df # None
    /\ G_ids(session.rated_df) = {Num(3)}
    /\ result.status = "displayed"
    /\ result.data_source = "Batch"
    /\ result.rated_df # None

\* the session holds raw data
G_loaded == "data_source" \in DOMAIN session /\ session.raw_df # None

\* with the files as they are now, process_data returns for the session's raw data
\* and the rating table is in place
G_processable ==
    /\ G_loaded
    /\ process_data(session.raw_df, category_config, banding_config).status = "returned"
    /\ rating_table # MissingFile

\* the session holds transformed and rated data on top of its raw data
G_complete ==
    /\ G_loaded
    /\ session.transformed_df # None
    /\ session.rated_df # None

\* C27: once the session holds raw data that the pipeline can process (whatever made
\* process_data or rate_policies fail in an earlier run being gone), the session
\* eventually holds transformed and rated data: a later run computes them
C27_EventuallyRated == G_processable ~> G_complete

====
